---- MODULE Spec2Model ----
(***************************************************************************)
(* Card reader extension: the PC/SC protocol client (src/pcsc-client.js)   *)
(* and the background detection engine (src/background.js, lines 1-520).   *)
(*                                                                         *)
(* The specifications share the definitions of the client:                 *)
(*   SpecClient  one PcscClient object driven through its public methods   *)
(*               by an arbitrary caller and an arbitrary broker;           *)
(*   Spec        the background service worker: start(), restart(), the    *)
(*               two detection loops, the keepalive alarm, the popup's     *)
(*               resendRequest, run as JavaScript tasks that interleave    *)
(*               at their awaits;                                          *)
(*   SpecQuickStorage  the behaviours of Spec in which chrome.storage      *)
(*               answers before anything else happens;                     *)
(*   SpecAlarmWake  Spec from the state of a worker woken by the alarm;    *)
(*   SpecPoll    the polling loop followed through more requests;          *)
(*   SpecTick    the worker with the keepalive alarm as its only event;    *)
(*   SpecLog     the event log alone, appended to and cleared;             *)
(*   SpecDispatch  the event loop with an endpoint configured and the      *)
(*               popup's resendRequest, followed through a card read;      *)
(*   SpecResend  resendRequest after an earlier request was answered;      *)
(*   SpecAtr     parseAtr alone, on a set of ATRs;                         *)
(*   SpecUid     readCardUid alone, on the responses of transmit;          *)
(*   SpecRead    the event loop through a card read, a refused transmit    *)
(*               and the removal of the card;                              *)
(*   SpecSeated  the engine with a card that stays in the reader and a     *)
(*               change of the detection mode.                             *)
(***************************************************************************)
EXTENDS Integers, Sequences, FiniteSets, TLC

\* ------------------------------------------------------------------ bounds

\* Calls the caller of SpecClient may issue on its client (caps _requestId
\* in the guards).
MaxCalls == 2

\* Calls the engine of Spec may issue on one client.
MaxReq == 5

\* PcscClient objects the engine may construct.
MaxClients == 2

\* JavaScript tasks (start, restart and resend invocations) alive at once.
MaxTasks == 2

\* How many events of the browser (onInstalled, onStartup, the keepalive
\* alarm), the options page and the popup are delivered.
MaxEvents == 1

\* In SpecPoll, which follows runPollLoop through the removal of a card and
\* the next detection, a client sends at most this many requests.
MaxPollReq == 11

\* In SpecDispatch, which follows runEventLoop through the reading of a card
\* and the dispatch after it, a client sends at most this many requests.
MaxEventReq == 7

\* Bytes of a response of transmit in SpecUid.
MaxRespLen == 4

\* In SpecRead, which follows runEventLoop through a card read and the
\* removal of the card, a client sends at most this many requests.
MaxReadReq == 9

\* In SpecLog, which drives the event log alone, at most this many entries
\* are appended.
MaxAppends == 53

\* ------------------------------------------------- JavaScript value helpers

\* null and undefined in a slot that holds a number (a handle, a status
\* code, a protocol): the broker's numbers are never negative. NullStr and
\* UndefinedStr are null and undefined in a slot that holds text.
Null == -1
Undefined == -2
NullStr == "null"
UndefinedStr == "undefined"

\* seq[i] of a JavaScript array (0-based i): undefined out of range.
JsAt(seq, i) == IF i + 1 <= Len(seq) THEN seq[i + 1] ELSE Undefined

\* seq.slice(1)
JsSlice1(seq) == IF Len(seq) = 0 THEN <<>> ELSE Tail(seq)

\* A map with one key removed / one key set.
MapDelete(m, k) == [x \in (DOMAIN m) \ {k} |-> m[x]]
MapSet(m, k, v) == [x \in (DOMAIN m) \cup {k} |-> IF x = k THEN v ELSE m[x]]
EmptyMap == [x \in {} |-> Null]

\* ------------------------------------------------- constants of the client

SCARD_SCOPE_SYSTEM == 2
SCARD_SHARE_SHARED == 2
SCARD_PROTOCOL_T0 == 1
SCARD_PROTOCOL_T1 == 2
SCARD_PROTOCOL_ANY == 3
SCARD_S_SUCCESS == 0
SCARD_LEAVE_CARD == 0
SCARD_STATE_UNAWARE == 0
SCARD_STATE_CHANGED == 2
SCARD_STATE_PRESENT == 32
\* 0x8010000A and 0x80100002, written as 32-bit two's complement (the value
\* minus 2^32): the checker's integers are 32 bits wide.
SCARD_E_TIMEOUT == -2146435062
SCARD_E_CANCELLED == -2146435070

\* Constants of the engine.
MAX_LOG_ENTRIES == 50
POLL_INTERVAL_MS == 1500
STATUS_CHANGE_TIMEOUT == 60000

ResponseType == "pcsc_lite_function_call::response"
RequestType == "pcsc_lite_function_call::request"

\* The public methods that go through _call, and the broker function of each.
Methods ==
  {"establishContext", "listReaders", "connectCard", "transmit", "status",
   "disconnect", "getStatusChange", "cancel", "releaseContext"}

FunctionName(m) ==
  CASE m = "establishContext" -> "SCardEstablishContext"
    [] m = "listReaders" -> "SCardListReaders"
    [] m = "connectCard" -> "SCardConnect"
    [] m = "transmit" -> "SCardTransmit"
    [] m = "status" -> "SCardStatus"
    [] m = "disconnect" -> "SCardDisconnect"
    [] m = "getStatusChange" -> "SCardGetStatusChange"
    [] m = "cancel" -> "SCardCancel"
    [] m = "releaseContext" -> "SCardReleaseContext"

\* ------------------------------------------------------ errors and promises

JsError(msg) == [kind |-> "Error", message |-> msg]
JsErrorWith(msg, detail) == JsError(msg \o detail)
PcscError(code) == [kind |-> "PcscError", code |-> code]

Pending == [st |-> "pending"]
Resolved(v) == [st |-> "resolved", value |-> v]
Rejected(e) == [st |-> "rejected", error |-> e]

ErrNotConnected == JsError("Not connected to Smart Card Connector")
ErrNoContext == JsError("No context established")
ErrPortDisconnected == JsError("Port disconnected")
ErrClientDisposed == JsError("Client disposed")

\* ------------------------------------------------------------ PcscClient

\* new PcscClient(): _pending maps a request id to the method whose promise
\* (resolve, reject and the method's continuation) waits for that id.
NewClient ==
  [port |-> Null, requestId |-> 0, pending |-> EmptyMap, context |-> Null,
   disposed |-> FALSE]

\* The result of one step of a client: the client afterwards, the messages
\* posted on its port, the promise returned to the caller (a pending promise
\* names its request id) and the promises of earlier calls it settled.
Step(cl, post, ret, settled) ==
  [cl |-> cl, post |-> post, ret |-> ret, settled |-> settled]

\* _call numbering the request after the size of the pending table.
Call_IdFromPendingSize(cl, m, args) ==
  IF cl.disposed \/ cl.port = Null
  THEN Step(cl, <<>>, Rejected(ErrNotConnected), EmptyMap)
  ELSE LET requestId == Cardinality(DOMAIN cl.pending) + 1 IN
       Step([cl EXCEPT !.requestId = requestId,
                       !.pending = MapSet(@, requestId, m)],
            <<[type |-> RequestType, request_id |-> requestId,
               function_name |-> FunctionName(m), arguments |-> args]>>,
            [st |-> "pending", id |-> requestId],
            EmptyMap)

\* _call(functionName, args), issued by method m.
Call(cl, m, args) ==
  IF cl.disposed \/ cl.port = Null
  THEN Step(cl, <<>>, Rejected(ErrNotConnected), EmptyMap)
  ELSE LET requestId == cl.requestId + 1 IN
       Step([cl EXCEPT !.requestId = requestId,
                       !.pending = MapSet(@, requestId, m)],
            <<[type |-> RequestType, request_id |-> requestId,
               function_name |-> FunctionName(m), arguments |-> args]>>,
            [st |-> "pending", id |-> requestId],
            EmptyMap)

\* The methods: their guards and the arguments they pass to _call.
EstablishContext(cl) ==
  Call(cl, "establishContext", <<SCARD_SCOPE_SYSTEM, Null, Null>>)

ListReaders(cl) ==
  IF cl.context = Null
  THEN Step(cl, <<>>, Rejected(ErrNoContext), EmptyMap)
  ELSE Call(cl, "listReaders", <<cl.context, Null>>)

ConnectCard(cl, readerName) ==
  IF cl.context = Null
  THEN Step(cl, <<>>, Rejected(ErrNoContext), EmptyMap)
  ELSE Call(cl, "connectCard",
            <<cl.context, readerName, SCARD_SHARE_SHARED, SCARD_PROTOCOL_ANY>>)

Transmit(cl, cardHandle, protocol, apdu) ==
  Call(cl, "transmit",
       <<cardHandle,
         IF protocol = SCARD_PROTOCOL_T0 THEN SCARD_PROTOCOL_T0 ELSE SCARD_PROTOCOL_T1,
         apdu, Null>>)

Status(cl, cardHandle) == Call(cl, "status", <<cardHandle>>)

Disconnect(cl, cardHandle) ==
  Call(cl, "disconnect", <<cardHandle, SCARD_LEAVE_CARD>>)

GetStatusChange(cl, timeout, readerStates) ==
  IF cl.context = Null
  THEN Step(cl, <<>>, Rejected(ErrNoContext), EmptyMap)
  ELSE Call(cl, "getStatusChange", <<cl.context, timeout, readerStates>>)

Cancel(cl) ==
  IF cl.context = Null
  THEN Step(cl, <<>>, Resolved(Undefined), EmptyMap)
  ELSE Call(cl, "cancel", <<cl.context>>)

ReleaseContext(cl) ==
  IF cl.context = Null
  THEN Step(cl, <<>>, Resolved(Undefined), EmptyMap)
  ELSE Call(cl, "releaseContext", <<cl.context>>)

\* What method m does with the value its _call resolved with: the client
\* afterwards, and the value of the method's own promise.
ContinueClient(cl, m, result) ==
  CASE m = "establishContext" -> [cl EXCEPT !.context = JsAt(result, 0)]
    [] m = "releaseContext" -> [cl EXCEPT !.context = Null]
    [] OTHER -> cl

ContinueValue(m, result) ==
  CASE m = "establishContext" -> JsAt(result, 0)
    [] m = "listReaders" -> JsAt(result, 0)
    [] m = "connectCard" ->
         [handle |-> JsAt(result, 0), protocol |-> JsAt(result, 1)]
    [] m = "transmit" -> JsAt(result, 1)
    [] m = "status" ->
         [readerName |-> JsAt(result, 0), state |-> JsAt(result, 1),
          protocol |-> JsAt(result, 2), atr |-> JsAt(result, 3)]
    [] m = "disconnect" -> result
    [] m = "getStatusChange" -> JsAt(result, 0)
    [] m = "cancel" -> result
    [] m = "releaseContext" -> Undefined

\* _onMessage resolving with the whole tuple, status slot included.
Outcome_KeepsStatusSlot(payload, error) ==
  IF error # UndefinedStr
  THEN Rejected(JsErrorWith("PC/SC error: ", error))
  ELSE LET errorCode == JsAt(payload, 0) IN
       IF errorCode # SCARD_S_SUCCESS
       THEN Rejected(PcscError(errorCode))
       ELSE Resolved(payload)

\* How _onMessage settles the promise of a call from the response's fields.
Outcome(payload, error) ==
  IF error # UndefinedStr
  THEN Rejected(JsErrorWith("PC/SC error: ", error))
  ELSE LET errorCode == JsAt(payload, 0) IN
       IF errorCode # SCARD_S_SUCCESS
       THEN Rejected(PcscError(errorCode))
       ELSE Resolved(JsSlice1(payload))

\* _onMessage without this._pending.delete(request_id).
OnMessage_KeepsEntry(cl, msg) ==
  IF msg.type # ResponseType THEN Step(cl, <<>>, Undefined, EmptyMap)
  ELSE IF msg.request_id \notin DOMAIN cl.pending
  THEN Step(cl, <<>>, Undefined, EmptyMap)
  ELSE LET m == cl.pending[msg.request_id]
           out == Outcome(msg.payload, msg.error)
       IN IF out.st = "rejected"
          THEN Step(cl, <<>>, Undefined, (msg.request_id :> out))
          ELSE Step(ContinueClient(cl, m, out.value), <<>>, Undefined,
                    (msg.request_id :> Resolved(ContinueValue(m, out.value))))

\* _onMessage(msg), followed by the continuation of the method it resolves.
OnMessage(cl, msg) ==
  IF msg.type # ResponseType THEN Step(cl, <<>>, Undefined, EmptyMap)
  ELSE IF msg.request_id \notin DOMAIN cl.pending
  THEN Step(cl, <<>>, Undefined, EmptyMap)
  ELSE LET m == cl.pending[msg.request_id]
           cl1 == [cl EXCEPT !.pending = MapDelete(@, msg.request_id)]
           out == Outcome(msg.payload, msg.error)
       IN IF out.st = "rejected"
          THEN Step(cl1, <<>>, Undefined, (msg.request_id :> out))
          ELSE Step(ContinueClient(cl1, m, out.value), <<>>, Undefined,
                    (msg.request_id :> Resolved(ContinueValue(m, out.value))))

\* onDisconnect clearing the pending table without rejecting its entries.
OnDisconnect_ClearsOnly(cl) ==
  Step([cl EXCEPT !.disposed = TRUE, !.pending = EmptyMap, !.port = Null,
                  !.context = Null],
       <<>>, Undefined, EmptyMap)

\* The port's onDisconnect listener.
OnDisconnect(cl) ==
  Step([cl EXCEPT !.disposed = TRUE, !.pending = EmptyMap, !.port = Null,
                  !.context = Null],
       <<>>, Undefined,
       [id \in DOMAIN cl.pending |-> Rejected(ErrPortDisconnected)])

\* dispose() closing the port without rejecting the pending calls.
Dispose_ClosesOnly(cl) ==
  Step([cl EXCEPT !.disposed = TRUE, !.port = Null, !.context = Null],
       <<>>, Undefined, EmptyMap)

\* dispose()
Dispose(cl) ==
  Step([cl EXCEPT !.disposed = TRUE, !.port = Null, !.context = Null,
                  !.pending = EmptyMap],
       <<>>, Undefined,
       [id \in DOMAIN cl.pending |-> Rejected(ErrClientDisposed)])

\* isConnected()
IsConnected(cl) == ~cl.disposed /\ cl.port # Null /\ cl.context # Null

\* --------------------------------------------------- hex and ATR parsing

HexDigits == <<"0", "1", "2", "3", "4", "5", "6", "7", "8", "9",
               "A", "B", "C", "D", "E", "F">>

\* b.toString(16).toUpperCase()
RECURSIVE ToHexUpper(_)
ToHexUpper(b) ==
  IF b < 16 THEN HexDigits[b + 1]
  ELSE ToHexUpper(b \div 16) \o HexDigits[(b % 16) + 1]

\* b.toString(16).toUpperCase().padStart(2, '0')
Hex2(b) == IF b < 16 THEN "0" \o ToHexUpper(b) ELSE ToHexUpper(b)

\* bytes.map(Hex2).join(sep)
RECURSIVE JoinHex(_, _)
JoinHex(bytes, sep) ==
  IF Len(bytes) = 0 THEN ""
  ELSE IF Len(bytes) = 1 THEN Hex2(bytes[1])
  ELSE Hex2(bytes[1]) \o sep \o JoinHex(Tail(bytes), sep)

\* bytesToHex(bytes)
BytesToHex(bytes) == JoinHex(bytes, ":")

\* bytes.slice(from, to) with 0 <= from, on 0-based positions.
JsSlice(bytes, from, to) ==
  LET hi == IF to < Len(bytes) THEN to ELSE Len(bytes) IN
  IF from >= hi THEN <<>> ELSE SubSeq(bytes, from + 1, hi)

\* Bit k (a power of two) of n is set.
BitSet(n, k) == (n \div k) % 2 = 1

KNOWN_RIDS ==
  [k \in {"A000000306", "A000000003", "A000000004", "A000000065", "D276000085"} |->
     CASE k = "A000000306" -> "NXP (PC/SC standard)"
       [] k = "A000000003" -> "Visa"
       [] k = "A000000004" -> "Mastercard"
       [] k = "A000000065" -> "JCB"
       [] k = "D276000085" -> "NFC Forum"]

KNOWN_CARD_STANDARDS ==
  [k \in {"0001", "0002", "0003", "0005", "0006", "0007"} |->
     CASE k = "0001" -> "ISO 14443 A, Part 1"
       [] k = "0002" -> "ISO 14443 A, Part 2"
       [] k = "0003" -> "ISO 14443 A, Part 3"
       [] k = "0005" -> "ISO 14443 B, Part 1"
       [] k = "0006" -> "ISO 14443 B, Part 2"
       [] k = "0007" -> "ISO 14443 B, Part 3"]

KNOWN_CARD_NAMES ==
  [k \in {"0001", "0002", "0003", "0026", "003A", "003B", "0036", "0037",
          "0038", "0039", "F004", "F011", "F012", "FF28", "FF40", "FF88"} |->
     CASE k = "0001" -> "MIFARE Classic 1K"
       [] k = "0002" -> "MIFARE Classic 4K"
       [] k = "0003" -> "MIFARE Ultralight"
       [] k = "0026" -> "MIFARE Mini"
       [] k = "003A" -> "MIFARE Ultralight C"
       [] k = "003B" -> "MIFARE Ultralight EV1"
       [] k = "0036" -> "MIFARE Plus 2K SL1"
       [] k = "0037" -> "MIFARE Plus 4K SL1"
       [] k = "0038" -> "MIFARE Plus 2K SL2"
       [] k = "0039" -> "MIFARE Plus 4K SL2"
       [] k = "F004" -> "Topaz 512"
       [] k = "F011" -> "FeliCa 212K"
       [] k = "F012" -> "FeliCa 424K"
       [] k = "FF28" -> "JCOP 31/36"
       [] k = "FF40" -> "Java Card"
       [] k = "FF88" -> "Infineon SLE 66R35"]

\* table[key] || fallback
Lookup(table, key, fallback) ==
  IF key \in DOMAIN table THEN table[key] ELSE fallback

\* The walk over the interface bytes: the index where the historical bytes
\* start, from index idx with indicator byte td.
RECURSIVE HistoricalStart(_, _, _)
HistoricalStart(atrBytes, idx, td) ==
  IF (td \div 16) % 16 = 0 THEN idx
  ELSE LET i1 == idx + (IF BitSet(td, 16) THEN 1 ELSE 0)
                     + (IF BitSet(td, 32) THEN 1 ELSE 0)
                     + (IF BitSet(td, 64) THEN 1 ELSE 0)
       IN IF BitSet(td, 128)
          THEN HistoricalStart(atrBytes, i1 + 1,
                               IF i1 + 1 <= Len(atrBytes) THEN atrBytes[i1 + 1] ELSE 0)
          ELSE i1

EmptyCardInfo ==
  [cardType |-> NullStr, standard |-> NullStr, cardName |-> NullStr,
   rid |-> NullStr, historicalBytes |-> NullStr, threw |-> FALSE]

\* The compact-TLV scan of the historical bytes hb from 0-based index i:
\* the fields it sets in result, or threw when it reads the standard or
\* card-name byte past the end of hb (undefined.toString).
RECURSIVE ScanTlv(_, _, _)
ScanTlv(hb, i, result) ==
  IF ~(i < Len(hb) - 1) THEN result
  ELSE LET tag == hb[i + 1]
           len == hb[i + 2]
       IN IF tag = 79 /\ len >= 5
          THEN LET ridHex == JoinHex(JsSlice(hb, i + 2, i + 2 + 5), "")
                   r1 == [result EXCEPT !.rid = Lookup(KNOWN_RIDS, ridHex, ridHex)]
               IN IF ridHex = "A000000306" /\ len >= 7
                  THEN IF i + 2 + 6 + 1 > Len(hb)
                       THEN [r1 EXCEPT !.threw = TRUE]
                       ELSE LET ss == Hex2(hb[i + 2 + 5 + 1])
                                nn == Hex2(hb[i + 2 + 6 + 1])
                            IN [r1 EXCEPT
                                 !.standard = Lookup(KNOWN_CARD_STANDARDS, "00" \o ss,
                                                     "Standard 0x" \o ss),
                                 !.cardName = Lookup(KNOWN_CARD_NAMES, "00" \o nn,
                                                     "Type 0x" \o nn)]
                  ELSE r1
          ELSE ScanTlv(hb, i + 2 + len, result)

\* parseAtr(atrBytes): the metadata record; threw is set when the code
\* raises a TypeError instead of returning.
ParseAtr(atrBytes) ==
  IF Len(atrBytes) < 2 THEN EmptyCardInfo
  ELSE LET t0 == atrBytes[2]
           numHistorical == t0 % 16
       IN IF numHistorical = 0 THEN EmptyCardInfo
          ELSE LET idx == HistoricalStart(atrBytes, 2, t0) IN
               IF idx + numHistorical > Len(atrBytes) THEN EmptyCardInfo
               ELSE LET hb == JsSlice(atrBytes, idx, idx + numHistorical)
                        r0 == [EmptyCardInfo EXCEPT !.historicalBytes = BytesToHex(hb)]
                        r1 == IF numHistorical >= 5 /\ hb[1] = 128
                              THEN ScanTlv(hb, 1, r0) ELSE r0
                    IN IF r1.threw THEN r1
                       ELSE IF r1.cardName = NullStr /\ Len(atrBytes) >= 6
                               /\ atrBytes[1] = 59 /\ (atrBytes[2] \div 16) % 16 = 8
                               /\ atrBytes[3] = 128 /\ atrBytes[4] = 1
                       THEN [r1 EXCEPT !.cardType = "Contactless (ISO 14443)"]
                       ELSE r1

\* readCardUid that looks at SW1 only.
UidOfResponse_Sw1Only(response) ==
  IF Len(response) < 2 THEN NullStr
  ELSE IF response[Len(response) - 1] = 144
  THEN BytesToHex(JsSlice(response, 0, Len(response) - 2))
  ELSE NullStr

\* readCardUid, from the response bytes of transmit.
UidOfResponse(response) ==
  IF Len(response) < 2 THEN NullStr
  ELSE IF response[Len(response) - 1] = 144 /\ response[Len(response)] = 0
  THEN BytesToHex(JsSlice(response, 0, Len(response) - 2))
  ELSE NullStr

\* ------------------------------------------------------------------ state

VARIABLES
  clients,    \* the PcscClient objects ever constructed, by identity
  chan,       \* the state of each client's port at the browser
  posted,     \* the messages each client posted on its port, in order
  promises,   \* the promise of each call of each client, by request id
  last,       \* the latest event at the client of SpecClient: the method
              \* invoked and the promise it returned, or the message delivered
  client,     \* background.js: the global client (a client identity, or null)
  running,    \* background.js: the global running
  currentState, \* background.js: the global currentState
  debugLog,   \* background.js: the global debugLog
  settings,   \* background.js: the global settings
  storage,    \* chrome.storage.local
  tasks,      \* the invocations of start(), restart() and callEndpoint()
              \* that have not returned: where each is suspended and its locals
  made,       \* how many PcscClient objects have been constructed
  fired,      \* the lifecycle events (onInstalled, onStartup) delivered so far
  events,     \* how many events of the browser, the options page and the
              \* popup have been delivered so far
  reqLimit    \* how many requests a client sends at most in the behaviours
              \* explored (MaxReq, or MaxPollReq in SpecPoll)

clientVars == <<clients, chan, posted, promises>>
engineVars ==
  <<client, running, currentState, debugLog, settings, storage, tasks, made,
    fired, events, reqLimit>>
\* The engine's variables but the tasks.
hostVars ==
  <<client, running, currentState, debugLog, settings, storage, made, fired,
    events, reqLimit>>
vars == <<clients, chan, posted, promises, last, client, running, currentState,
          debugLog, settings, storage, tasks, made, fired, events, reqLimit>>

\* The client the caller of SpecClient drives.
TheClient == 1
ClientIds == 1..MaxClients

\* What the broker may put in a response: result tuples (empty, success
\* with 0, 1 or 2 result slots, failure codes with and without further
\* slots) and a transport error field, under any request id the client
\* issued or did not issue; and a message of another type.
LibPayloads == {<<>>, <<0>>, <<0, 7, 8>>, <<SCARD_E_TIMEOUT, 7>>}
LibMessages ==
  {[type |-> ResponseType, request_id |-> id, payload |-> p, error |-> UndefinedStr] :
     id \in 1..(MaxCalls + 1), p \in LibPayloads}
  \cup {[type |-> ResponseType, request_id |-> id, payload |-> p, error |-> "boom"] :
     id \in 1..(MaxCalls + 1), p \in {<<0, 7, 8>>}}
  \cup {[type |-> "other", request_id |-> 1, payload |-> <<0, 7, 8>>, error |-> UndefinedStr]}

\* The methods the caller of SpecClient invokes: one of each shape (sets the
\* context, clears it, guarded by it, returns early without it, hands the
\* result slots on unchanged, picks a result slot). The engine of Spec
\* invokes the others.
LibMethods ==
  {"establishContext", "releaseContext", "listReaders", "cancel", "disconnect",
   "transmit"}

\* The arguments the caller passes.
LibReader == "R"
LibApdu == <<255, 202, 0, 0, 0>>
LibReaderStates == <<[reader_name |-> LibReader, current_state |-> SCARD_STATE_UNAWARE]>>

\* ------------------------------------------------------------ the engine
\* background.js, lines 1-520. The timestamps of the log entries and the
\* timestamps and durations of the request and response records are not part
\* of this state. The strings of the source are written in ASCII: its dash
\* (U+2014) is "--" here and its ellipsis (U+2026) "...".

NoClient == 0
NoCard == [handle |-> Null, protocol |-> Null]
NoRecord == [kind |-> "null"]
\* What a task waits for: a call of client c (request id), a timer of ms
\* milliseconds that fires after the timers of the tasks in after, a fetch,
\* a storage operation, or nothing but its turn in the microtask queue.
Wait(kind) == [kind |-> kind, c |-> 0, id |-> 0, ms |-> 0, after |-> {}]
NoWait == Wait("none")
Ready == Wait("ready")
Fetch == Wait("fetch")
StorageGet == Wait("storage.get")
StorageSet == Wait("storage.set")
StorageWritten == Wait("storage.written")

\* A task: pc names the await it is suspended at, wait what that await waits
\* for, res the outcome of an await that is already settled; the rest are
\* the locals of the suspended functions (readerStates[0].current_state,
\* eventState, card, activeCard, uid, and the caller callEndpoint returns to).
IdleTask ==
  [pc |-> "idle", wait |-> NoWait, res |-> Resolved(Undefined), rs |-> 0,
   ev |-> 0, card |-> NoCard, active |-> NoCard, uid |-> NullStr,
   back |-> "none"]

InitialState ==
  [status |-> "initializing", readerName |-> NullStr, cardUid |-> NullStr,
   cardAtr |-> NullStr, cardInfo |-> NoRecord, error |-> NullStr,
   apiRequest |-> NoRecord, apiResponse |-> NoRecord]

\* clientId: 0 is no identifier, k > 0 the UUID drawn by the start() that
\* runs as task k (two draws of crypto.randomUUID() differ).
InitialSettings ==
  [detectionMode |-> "event", endpointUrl |-> "", venueId |-> "", clientId |-> 0]

\* chrome.storage.local holding nothing: the first run.
FirstRunStorage ==
  [detectionMode |-> UndefinedStr, endpointUrl |-> UndefinedStr,
   venueId |-> UndefinedStr, clientId |-> 0]

TaskIds == 1..MaxTasks

\* The TypeError of client.m(...) when client is null (the text is V8's).
ErrNullClient(m) ==
  JsError("Cannot read properties of null (reading '" \o m \o "')")

\* n in hexadecimal, upper case, on exactly k digits.
RECURSIVE PadHex(_, _)
PadHex(n, k) ==
  IF k = 0 THEN "" ELSE PadHex(n \div 16, k - 1) \o HexDigits[(n % 16) + 1]

\* (code >>> 0).toString(16).toUpperCase(), code in two's complement.
HexU32(code) ==
  IF code = Undefined THEN "0"
  ELSE IF code >= 0 THEN ToHexUpper(code)
  ELSE LET u == (code + 2147483647) + 1 IN
       HexDigits[(u \div 268435456) + 8 + 1] \o PadHex(u % 268435456, 7)

\* e.message
MessageOf(e) ==
  IF e.kind = "PcscError" THEN "PC/SC error: 0x" \o HexU32(e.code) ELSE e.message

\* The engine's state as one value, for the functions below.
World ==
  [client |-> client, running |-> running, cs |-> currentState,
   log |-> debugLog, settings |-> settings, clients |-> clients, chan |-> chan,
   posted |-> posted, promises |-> promises, tasks |-> tasks, made |-> made]

SetWorld(W) ==
  /\ client' = W.client
  /\ running' = W.running
  /\ currentState' = W.cs
  /\ debugLog' = W.log
  /\ settings' = W.settings
  /\ clients' = W.clients
  /\ chan' = W.chan
  /\ posted' = W.posted
  /\ promises' = W.promises
  /\ tasks' = W.tasks
  /\ made' = W.made

\* updateState(patch)
UpdateState(W, patch) ==
  [W EXCEPT !.cs = [f \in DOMAIN W.cs |->
                      IF f \in DOMAIN patch THEN patch[f] ELSE W.cs[f]]]

\* The optional third argument of addLog: absent, or a value.
NoDetail == [kind |-> "undefined"]
Detail(v) == [kind |-> "value", value |-> v]

\* addLog dropping the entry it has just pushed when the log is full.
AddLog_EvictsNewest(W, level, message, detail) ==
  LET entry == [level |-> level, message |-> message, detail |-> detail]
      pushed == Append(W.log, entry)
  IN [W EXCEPT !.log = IF Len(pushed) > MAX_LOG_ENTRIES THEN W.log ELSE pushed]

\* addLog(level, message, detail): the entry is pushed and, when the log is
\* then longer than MAX_LOG_ENTRIES, the oldest entry is shifted out.
AddLog(W, level, message, detail) ==
  LET entry == [level |-> level, message |-> message, detail |-> detail]
      pushed == Append(W.log, entry)
  IN [W EXCEPT !.log = IF Len(pushed) > MAX_LOG_ENTRIES THEN Tail(pushed)
                        ELSE pushed]

\* The clearLog message: debugLog = [].
ClearLog(W) == [W EXCEPT !.log = <<>>]

\* n.toString() of a number n >= 0.
RECURSIVE ToDecimal(_)
ToDecimal(n) ==
  IF n < 10 THEN HexDigits[n + 1]
  ELSE ToDecimal(n \div 10) \o HexDigits[(n % 10) + 1]

\* A step r of client c, on the world.
ApplyW(W, c, r) ==
  [W EXCEPT !.clients[c] = r.cl,
            !.posted[c] = @ \o r.post,
            !.promises[c] =
              [id \in DOMAIN @ \cup DOMAIN r.settled
                      \cup (IF r.ret.st = "pending" THEN {r.ret.id} ELSE {}) |->
                 IF id \in DOMAIN r.settled THEN r.settled[id]
                 ELSE IF id \in DOMAIN @ THEN @[id] ELSE Pending]]

NoRet(r) == [r EXCEPT !.ret = [st |-> "none"]]

\* client.dispose() on client c: the port, if open, is closed.
DisposeW(W, c) ==
  LET W1 == ApplyW(W, c, NoRet(Dispose(W.clients[c]))) IN
  [W1 EXCEPT !.chan[c] = IF @ = "open" THEN "closed" ELSE @]

\* Task t suspends at pc on the promise a method of the global client
\* returned (r is the method's step on that client).
Await(W, t, pc, r) ==
  LET W1 == ApplyW(W, W.client, r) IN
  [W1 EXCEPT !.tasks[t].pc = pc,
             !.tasks[t].wait =
               IF r.ret.st = "pending"
               THEN [Wait("call") EXCEPT !.c = W.client, !.id = r.ret.id]
               ELSE Ready,
             !.tasks[t].res = IF r.ret.st = "pending" THEN Pending ELSE r.ret]

\* Task t suspends at pc on a promise that is already settled with res.
AwaitSettled(W, t, pc, res) ==
  [W EXCEPT !.tasks[t].pc = pc, !.tasks[t].wait = Ready, !.tasks[t].res = res]

\* Task t suspends at pc on a timer, a fetch or a storage operation.
AwaitEvent(W, t, pc, wait) ==
  [W EXCEPT !.tasks[t].pc = pc, !.tasks[t].wait = wait, !.tasks[t].res = Pending]

\* Task t suspends at pc in sleep(ms), or on the timer of connect(): the
\* timers set earlier for no longer a time fire first.
Sleep(W, t, pc, ms) ==
  AwaitEvent(W, t, pc,
    [Wait("timer") EXCEPT
       !.ms = ms,
       !.after = {u \in DOMAIN W.tasks :
                    /\ u # t
                    /\ W.tasks[u].wait.kind = "timer"
                    /\ W.tasks[u].wait.ms <= ms}])

\* The function task t runs has returned.
Finish(W, t) == [W EXCEPT !.tasks[t] = IdleTask]

\* The methods invoked on the global client: client.m(...) throws a
\* TypeError when client is null, which the awaits of the callers below
\* see as a rejection.
DoEstablishContext(W, t, pc) ==
  IF W.client = NoClient THEN AwaitSettled(W, t, pc, Rejected(ErrNullClient("establishContext")))
  ELSE Await(W, t, pc, EstablishContext(W.clients[W.client]))

DoListReaders(W, t, pc) ==
  IF W.client = NoClient THEN AwaitSettled(W, t, pc, Rejected(ErrNullClient("listReaders")))
  ELSE Await(W, t, pc, ListReaders(W.clients[W.client]))

DoConnectCard(W, t, pc, readerName) ==
  IF W.client = NoClient THEN AwaitSettled(W, t, pc, Rejected(ErrNullClient("connectCard")))
  ELSE Await(W, t, pc, ConnectCard(W.clients[W.client], readerName))

DoReadCardUid(W, t, pc, card) ==
  IF W.client = NoClient THEN AwaitSettled(W, t, pc, Rejected(ErrNullClient("readCardUid")))
  ELSE Await(W, t, pc,
             Transmit(W.clients[W.client], card.handle, card.protocol,
                      <<255, 202, 0, 0, 0>>))

DoStatus(W, t, pc, cardHandle) ==
  IF W.client = NoClient THEN AwaitSettled(W, t, pc, Rejected(ErrNullClient("status")))
  ELSE Await(W, t, pc, Status(W.clients[W.client], cardHandle))

DoDisconnect(W, t, pc, cardHandle) ==
  IF W.client = NoClient THEN AwaitSettled(W, t, pc, Rejected(ErrNullClient("disconnect")))
  ELSE Await(W, t, pc, Disconnect(W.clients[W.client], cardHandle))

DoGetStatusChange(W, t, pc, readerName, currentStateFlags) ==
  IF W.client = NoClient THEN AwaitSettled(W, t, pc, Rejected(ErrNullClient("getStatusChange")))
  ELSE Await(W, t, pc,
             GetStatusChange(W.clients[W.client], STATUS_CHANGE_TIMEOUT,
                             <<[reader_name |-> readerName,
                                current_state |-> currentStateFlags]>>))

\* start(), up to its first await (inside loadSettings).
Start(W, t) ==
  AwaitEvent([W EXCEPT !.running = TRUE, !.tasks[t] = IdleTask],
             t, "start:loadSettings", StorageGet)

\* restart(), up to its first await.
Restart(W, t) ==
  LET W1 == [W EXCEPT !.running = FALSE] IN
  IF W1.client # NoClient
  THEN Await(W1, t, "restart:cancel", Cancel(W1.clients[W1.client]))
  ELSE Sleep(W1, t, "restart:sleep", 500)

\* start() after its detection loop has returned: the recovery when the
\* loop ended while running was still set.
AfterLoop(W, t) ==
  IF W.running
  THEN LET W0 == AddLog(W, "warn", "Connection lost, recovering in 2s...", NoDetail)
           W1 == [W0 EXCEPT !.running = FALSE]
           W2 == IF W1.client # NoClient
                 THEN [DisposeW(W1, W1.client) EXCEPT !.client = NoClient]
                 ELSE W1
       IN Sleep([W2 EXCEPT !.tasks[t] = IdleTask], t, "start:recoverySleep", 2000)
  ELSE Finish(W, t)

\* runEventLoop or runPollLoop returns: its locals are gone, and start(),
\* which awaits it, goes on in a later microtask.
LoopReturns(W, t) ==
  AwaitSettled([W EXCEPT !.tasks[t] = IdleTask], t, "start:loop", Resolved(Undefined))

\* start() in its catch block: connect or establishContext failed.
StartFailed(W, t, e) ==
  LET W1 == UpdateState(W,
              [status |-> "error",
               error |-> "Failed to connect to Smart Card Connector: " \o MessageOf(e)])
      W2 == AddLog(W1, "error", "Failed to connect to Smart Card Connector",
                   Detail(MessageOf(e)))
  IN Finish([W2 EXCEPT !.running = FALSE, !.client = NoClient], t)

\* runEventLoop at the test of its outer while.
EventLoopTop(W, t) ==
  IF W.running
  THEN DoListReaders([W EXCEPT !.tasks[t].rs = 0, !.tasks[t].ev = 0], t, "event:listReaders")
  ELSE LoopReturns(W, t)

\* runEventLoop at the test of its inner while (readerName is readers[0],
\* which currentState.readerName holds for the length of the inner loop
\* only if no other task writes it: the task keeps rs, the known state).
InnerLoopTop(W, t, readerName) ==
  IF W.running
  THEN DoGetStatusChange(W, t, "event:getStatusChange", readerName, W.tasks[t].rs)
  ELSE EventLoopTop(W, t)

\* runEventLoop passing the event state on as it came, changed bit included.
AfterEvent_KeepsChanged(W, t, readerName) ==
  InnerLoopTop([W EXCEPT !.tasks[t].rs = W.tasks[t].ev, !.tasks[t].card = NoCard,
                         !.tasks[t].uid = NullStr],
               t, readerName)

\* runEventLoop after handling a status change: the next known state.
AfterEvent(W, t, readerName) ==
  LET ev == W.tasks[t].ev
      cleared == IF BitSet(ev, SCARD_STATE_CHANGED) THEN ev - SCARD_STATE_CHANGED ELSE ev
  IN InnerLoopTop([W EXCEPT !.tasks[t].rs = cleared, !.tasks[t].card = NoCard,
                            !.tasks[t].uid = NullStr],
                  t, readerName)

\* readCard at its final disconnect.
ReadCardDisconnect(W, t) ==
  DoDisconnect(W, t, "readCard:disconnect", W.tasks[t].card.handle)

\* runPollLoop looking for readers and cards in every cycle, a card held
\* or not.
PollLoopTop_Rescans(W, t) ==
  LET W1 == [W EXCEPT !.tasks[t].card = NoCard, !.tasks[t].uid = NullStr] IN
  IF ~W1.running THEN LoopReturns(W1, t)
  ELSE DoListReaders(W1, t, "poll:listReaders")

\* runPollLoop at the test of its while.
PollLoopTop(W, t) ==
  LET W1 == [W EXCEPT !.tasks[t].card = NoCard, !.tasks[t].uid = NullStr] IN
  IF ~W1.running THEN LoopReturns(W1, t)
  ELSE IF W1.tasks[t].active # NoCard
  THEN DoStatus(W1, t, "poll:statusHeld", W1.tasks[t].active.handle)
  ELSE DoListReaders(W1, t, "poll:listReaders")

\* runPollLoop keeping the handle of the removed card.
HeldCardRemoved_KeepsHandle(W, t) ==
  PollLoopTop(AddLog(UpdateState(W,
                [status |-> "ready", cardUid |-> NullStr, cardAtr |-> NullStr,
                 error |-> NullStr]),
              "info", "Card removed (poll mode)", NoDetail), t)

\* runPollLoop after the status call on the held handle failed and the
\* disconnect was tried: the handle is dropped, the state is ready.
HeldCardRemoved(W, t) ==
  PollLoopTop(AddLog(UpdateState([W EXCEPT !.tasks[t].active = NoCard],
                [status |-> "ready", cardUid |-> NullStr, cardAtr |-> NullStr,
                 error |-> NullStr]),
              "info", "Card removed (poll mode)", NoDetail), t)

\* runPollLoop at one of its sleeps.
PollSleep(W, t) == Sleep(W, t, "poll:sleep", POLL_INTERVAL_MS)

\* callEndpoint sending the request again when readCard called it and the
\* response was not a 2xx status record.
EndpointReturn_Retries(W, t) ==
  CASE W.tasks[t].back = "readCard" ->
         IF W.cs.apiResponse.kind = "response" /\ W.cs.apiResponse.status < 300
         THEN ReadCardDisconnect(W, t)
         ELSE AwaitEvent(W, t, "callEndpoint:fetch", Fetch)
    [] W.tasks[t].back = "poll" -> PollSleep(W, t)
    [] OTHER -> Finish(W, t)

\* callEndpoint returns to the function that awaits it.
EndpointReturn(W, t) ==
  CASE W.tasks[t].back = "readCard" -> ReadCardDisconnect(W, t)
    [] W.tasks[t].back = "poll" -> PollSleep(W, t)
    [] OTHER -> Finish(W, t)

\* The body callEndpoint builds when none is given.
DefaultBody(W, cardUid) ==
  LET ci == W.cs.cardInfo
      has(f) == ci # NoRecord /\ ci[f] # NullStr /\ ci[f] # ""
  IN [card_id |-> cardUid,
      venue_id |-> W.settings.venueId,
      client_id |-> W.settings.clientId,
      card_atr |-> IF W.cs.cardAtr # NullStr /\ W.cs.cardAtr # ""
                   THEN W.cs.cardAtr ELSE UndefinedStr,
      card_name |-> IF has("cardName") THEN ci.cardName ELSE UndefinedStr,
      card_standard |-> IF has("standard") THEN ci.standard ELSE UndefinedStr,
      card_type |-> IF has("cardType") THEN ci.cardType ELSE UndefinedStr,
      card_rid |-> IF has("rid") THEN ci.rid ELSE UndefinedStr]

\* callEndpoint returning without a word when there is no URL.
CallEndpoint_Silent(W, t, cardUid, ovUrl, ovBody, back) ==
  LET url == IF ovUrl # UndefinedStr /\ ovUrl # "" THEN ovUrl
             ELSE W.settings.endpointUrl
      W0 == [W EXCEPT !.tasks[t].back = back]
  IN IF url = ""
     THEN IF back = "none" THEN Finish(W0, t)
          ELSE AwaitSettled(W0, t, "callEndpoint:returned", Resolved(Undefined))
     ELSE LET body == IF ovBody # NoRecord THEN ovBody ELSE DefaultBody(W, cardUid)
              W1 == UpdateState(W0,
                      [apiRequest |-> [kind |-> "request", url |-> url, body |-> body],
                       apiResponse |-> NoRecord])
              W2 == AddLog(W1, "info", "Sending POST to " \o url, Detail(body))
          IN AwaitEvent(W2, t, "callEndpoint:fetch", Fetch)

\* callEndpoint(cardUid, overrides) up to its await of fetch; back names
\* the caller. An override that is absent is UndefinedStr (url) or NoRecord
\* (body).
CallEndpoint(W, t, cardUid, ovUrl, ovBody, back) ==
  LET url == IF ovUrl # UndefinedStr /\ ovUrl # "" THEN ovUrl
             ELSE W.settings.endpointUrl
      W0 == [W EXCEPT !.tasks[t].back = back]
  IN IF url = ""
     THEN LET W3 == AddLog(W0, "warn", "No endpoint URL configured, skipping API call",
                           NoDetail)
          IN IF back = "none" THEN Finish(W3, t)
             ELSE AwaitSettled(W3, t, "callEndpoint:returned", Resolved(Undefined))
     ELSE LET body == IF ovBody # NoRecord THEN ovBody ELSE DefaultBody(W, cardUid)
              W1 == UpdateState(W0,
                      [apiRequest |-> [kind |-> "request", url |-> url, body |-> body],
                       apiResponse |-> NoRecord])
              W2 == AddLog(W1, "info", "Sending POST to " \o url, Detail(body))
          IN AwaitEvent(W2, t, "callEndpoint:fetch", Fetch)

\* The card data read from the outcome of client.status(): atr and cardInfo
\* stay null when status failed or gave no ATR; cardInfo stays null when
\* parseAtr raised.
AtrOf(res) ==
  IF res.st = "resolved" /\ Len(res.value.atr) > 0
  THEN BytesToHex(res.value.atr) ELSE NullStr

CardInfoFrom(info) ==
  IF info.threw THEN NoRecord
  ELSE [cardType |-> info.cardType, standard |-> info.standard,
        cardName |-> info.cardName, rid |-> info.rid,
        historicalBytes |-> info.historicalBytes]

CardInfoOf(res) ==
  IF res.st = "resolved" /\ Len(res.value.atr) > 0
  THEN CardInfoFrom(ParseAtr(res.value.atr))
  ELSE NoRecord

\* The detail of the "Card detected" entries: { atr, ...(cardInfo || {}) }.
CardDetail(atr, info) ==
  Detail(IF info = NoRecord THEN [atr |-> atr]
         ELSE [atr |-> atr, cardType |-> info.cardType,
               standard |-> info.standard, cardName |-> info.cardName,
               rid |-> info.rid, historicalBytes |-> info.historicalBytes])

\* The card is shown: updateState(patch) and the "Card detected" entry.
ShowCard(W, patch, message) ==
  AddLog(UpdateState(W, patch), "info", message,
         CardDetail(patch.cardAtr, patch.cardInfo))

\* readCard after the card is shown: if (uid) await callEndpoint(uid).
AfterCardShown(W, t, uid) ==
  IF uid # NullStr /\ uid # UndefinedStr /\ uid # ""
  THEN CallEndpoint(W, t, uid, UndefinedStr, NoRecord, "readCard")
  ELSE ReadCardDisconnect(W, t)

\* runPollLoop after the card is shown: the handle is held, and
\* if (uid) await callEndpoint(uid).
AfterCardShownPoll(W, t, uid) ==
  IF uid # NullStr /\ uid # UndefinedStr /\ uid # ""
  THEN CallEndpoint([W EXCEPT !.tasks[t].active = W.tasks[t].card],
                    t, uid, UndefinedStr, NoRecord, "poll")
  ELSE PollSleep([W EXCEPT !.tasks[t].active = W.tasks[t].card], t)

\* uid || '(none)'
UidOrNone(uid) == IF uid # NullStr /\ uid # UndefinedStr /\ uid # "" THEN uid ELSE "(none)"

\* callEndpoint after fetch and the reading of the body ended with res: the
\* response record and the log entry.
EndpointDone(W, res) ==
  IF res.st = "resolved" /\ res.value.bodyError = NullStr
  THEN AddLog(UpdateState(W,
                [apiResponse |-> [kind |-> "response", status |-> res.value.status,
                                  body |-> res.value.body]]),
              IF res.value.status >= 200 /\ res.value.status < 300 THEN "info" ELSE "warn",
              "Response: " \o ToDecimal(res.value.status) \o " " \o res.value.statusText
                \o " (" \o ToDecimal(res.value.duration) \o "ms)",
              Detail(res.value.body))
  ELSE LET message == IF res.st = "resolved" THEN res.value.bodyError
                      ELSE MessageOf(res.error)
       IN AddLog(UpdateState(W, [apiResponse |-> [kind |-> "error", error |-> message]]),
                 "error", "Request failed: " \o message, NoDetail)

\* start() from the end of loadSettings to its await of client.connect();
\* portOk is whether chrome.runtime.connect returned a port.
StartConnect(W, t, portOk) ==
  LET c == W.made + 1
      W1 == UpdateState(W, [status |-> "connecting", error |-> NullStr])
      W2 == [W1 EXCEPT !.made = c, !.client = c]
  IN IF portOk
     THEN Sleep([W2 EXCEPT !.clients[c].port = 1, !.chan[c] = "open"],
                t, "start:connect", 100)
     ELSE AwaitSettled(W2, t, "start:connect",
                       Rejected(JsError("Failed to connect to Smart Card Connector. Is it installed? ")))

\* loadSettings after storage.get answered with stored.
LoadSettings(W, t, stored, portOk) ==
  LET W1 == [W EXCEPT
               !.settings.detectionMode =
                  IF stored.detectionMode # UndefinedStr THEN stored.detectionMode ELSE "event",
               !.settings.endpointUrl =
                  IF stored.endpointUrl # UndefinedStr THEN stored.endpointUrl ELSE "",
               !.settings.venueId =
                  IF stored.venueId # UndefinedStr THEN stored.venueId ELSE ""]
  IN IF stored.clientId = 0
     THEN AwaitEvent([W1 EXCEPT !.settings.clientId = t], t, "start:saveClientId", StorageSet)
     ELSE StartConnect([W1 EXCEPT !.settings.clientId = stored.clientId], t, portOk)

\* runEventLoop after a status change was reported.
OnStatusChange(W, t, updated) ==
  LET eventState == updated[1].event_state
      W1 == [W EXCEPT !.tasks[t].ev = eventState]
  IN IF BitSet(eventState, SCARD_STATE_PRESENT)
     THEN IF W1.cs.status # "card"
          THEN DoConnectCard(W1, t, "readCard:connectCard", LibReader)
          ELSE AfterEvent(W1, t, LibReader)
     ELSE IF W1.cs.status = "card"
          THEN AfterEvent(AddLog(UpdateState(W1,
                 [status |-> "ready", cardUid |-> NullStr, cardAtr |-> NullStr,
                  error |-> NullStr]), "info", "Card removed", NoDetail), t, LibReader)
          ELSE AfterEvent(W1, t, LibReader)

\* runEventLoop treating a timeout of getStatusChange as a failure.
OnStatusChangeError_TimeoutFatal(W, t, e) ==
  IF e.kind = "PcscError" /\ e.code = SCARD_E_CANCELLED
  THEN EventLoopTop(W, t)
  ELSE EventLoopTop(UpdateState(W,
         [status |-> "error",
          error |-> "Status change error: " \o MessageOf(e)]), t)

\* runEventLoop treating a cancellation of getStatusChange as a failure.
OnStatusChangeError_CancelFatal(W, t, e) ==
  IF e.kind = "PcscError" /\ e.code = SCARD_E_TIMEOUT
  THEN InnerLoopTop(W, t, LibReader)
  ELSE EventLoopTop(UpdateState(W,
         [status |-> "error",
          error |-> "Status change error: " \o MessageOf(e)]), t)

\* runEventLoop in the catch block of getStatusChange.
OnStatusChangeError(W, t, e) ==
  IF e.kind = "PcscError" /\ e.code = SCARD_E_TIMEOUT
  THEN InnerLoopTop(W, t, LibReader)
  ELSE IF e.kind = "PcscError" /\ e.code = SCARD_E_CANCELLED
  THEN EventLoopTop(W, t)
  ELSE EventLoopTop(UpdateState(W,
         [status |-> "error",
          error |-> "Status change error: " \o MessageOf(e)]), t)

\* runPollLoop taking every failed connectCard for "no card present".
OnPollConnectFailed_AlwaysIdle(W, t, e) ==
  PollSleep(IF W.cs.status # "ready"
            THEN UpdateState(W, [status |-> "ready", cardUid |-> NullStr,
                                 cardAtr |-> NullStr, error |-> NullStr])
            ELSE W, t)

\* runPollLoop in the catch block of connectCard: client.isConnected()
\* throws when client is null, which the outer catch block takes.
OnPollConnectFailed(W, t, e) ==
  IF W.client = NoClient
  THEN LoopReturns(UpdateState(W,
         [status |-> "error", error |-> MessageOf(ErrNullClient("isConnected"))]), t)
  ELSE IF ~IsConnected(W.clients[W.client])
  THEN LoopReturns(UpdateState(W,
         [status |-> "error", readerName |-> NullStr,
          error |-> "Lost connection: " \o MessageOf(e)]), t)
  ELSE PollSleep(IF W.cs.status # "ready"
                 THEN UpdateState(W, [status |-> "ready", cardUid |-> NullStr,
                                      cardAtr |-> NullStr, error |-> NullStr])
                 ELSE W, t)

Truthy(s) == s # NullStr /\ s # UndefinedStr /\ s # ""

\* The continuation of task t at the await it is suspended at, res being
\* the outcome of what it awaited; portOk is read only where the
\* continuation constructs a client.
Resume(W, t, res, portOk) ==
  LET pc == W.tasks[t].pc
      ok == res.st = "resolved"
      ReadyPatch == [status |-> "ready", cardUid |-> NullStr, cardAtr |-> NullStr,
                     error |-> NullStr]
      NoReaderPatch == [status |-> "ready", readerName |-> NullStr, cardUid |-> NullStr,
                        cardAtr |-> NullStr, error |-> NullStr]
      Lost(e) == [status |-> "error", readerName |-> NullStr,
                  error |-> "Lost connection: " \o MessageOf(e)]
  IN
  CASE pc = "start:loadSettings" -> LoadSettings(W, t, res.value, portOk)
    [] pc = "start:saveClientId" -> StartConnect(W, t, portOk)
    [] pc = "start:connect" ->
         IF ok THEN DoEstablishContext(W, t, "start:establishContext")
         ELSE StartFailed(W, t, res.error)
    [] pc = "start:establishContext" ->
         IF ~ok THEN StartFailed(W, t, res.error)
         ELSE LET W1 == AddLog(UpdateState(W, [status |-> "ready", error |-> NullStr]),
                               "info", "Connected to Smart Card Connector",
                               Detail([mode |-> W.settings.detectionMode]))
              IN
              IF W1.settings.detectionMode = "event"
              THEN EventLoopTop(W1, t)
              ELSE PollLoopTop([W1 EXCEPT !.tasks[t].active = NoCard], t)
    [] pc = "start:loop" -> AfterLoop(W, t)
    [] pc = "start:recoverySleep" -> Start(W, t)
    [] pc = "restart:cancel" ->
         IF W.client = NoClient THEN Finish(W, t)
         ELSE Sleep([DisposeW(W, W.client) EXCEPT !.client = NoClient],
                    t, "restart:sleep", 500)
    [] pc = "restart:sleep" -> Start(W, t)
    [] pc = "event:listReaders" ->
         IF ~ok THEN LoopReturns(UpdateState(W, Lost(res.error)), t)
         ELSE IF Len(res.value) = 0
         THEN Sleep(UpdateState(W, NoReaderPatch), t, "event:sleep", 3000)
         ELSE InnerLoopTop(
                [UpdateState(W, [readerName |-> res.value[1]])
                   EXCEPT !.tasks[t].rs = SCARD_STATE_UNAWARE],
                t, LibReader)
    [] pc = "event:sleep" -> EventLoopTop(W, t)
    [] pc = "event:getStatusChange" ->
         IF ~ok THEN OnStatusChangeError(W, t, res.error)
         ELSE IF Len(res.value) = 0 THEN InnerLoopTop(W, t, LibReader)
         ELSE OnStatusChange(W, t, res.value)
    [] pc = "readCard:connectCard" ->
         IF ~ok THEN AfterEvent(W, t, LibReader)
         ELSE LET W1 == [W EXCEPT !.tasks[t].card = res.value] IN
              DoReadCardUid(W1, t, "readCard:readCardUid", res.value)
    [] pc = "readCard:readCardUid" ->
         IF ~ok
         THEN ReadCardDisconnect(UpdateState(W,
                [status |-> "error",
                 error |-> "Failed to read card: " \o MessageOf(res.error)]), t)
         ELSE DoStatus([W EXCEPT !.tasks[t].uid = UidOfResponse(res.value)],
                       t, "readCard:status", W.tasks[t].card.handle)
    [] pc = "readCard:status" ->
         AfterCardShown(
           ShowCard(W,
             [status |-> "card", readerName |-> LibReader,
              cardUid |-> W.tasks[t].uid,
              cardAtr |-> AtrOf(res), cardInfo |-> CardInfoOf(res),
              error |-> NullStr, apiRequest |-> NoRecord,
              apiResponse |-> NoRecord],
             "Card detected -- UID: " \o UidOrNone(W.tasks[t].uid)),
           t, W.tasks[t].uid)
    [] pc = "readCard:disconnect" -> AfterEvent(W, t, LibReader)
    [] pc = "callEndpoint:returned" -> EndpointReturn(W, t)
    [] pc = "callEndpoint:fetch" ->
         EndpointReturn(EndpointDone(W, res), t)
    [] pc = "poll:statusHeld" ->
         IF ok THEN PollSleep(W, t)
         ELSE DoDisconnect(W, t, "poll:disconnectHeld", W.tasks[t].active.handle)
    [] pc = "poll:disconnectHeld" ->
         HeldCardRemoved(W, t)
    [] pc = "poll:sleep" -> PollLoopTop(W, t)
    [] pc = "poll:listReaders" ->
         IF ~ok THEN LoopReturns(UpdateState(W, Lost(res.error)), t)
         ELSE IF Len(res.value) = 0
         THEN PollSleep(UpdateState(W, NoReaderPatch), t)
         ELSE DoConnectCard(UpdateState(W, [readerName |-> res.value[1]]),
                            t, "poll:connectCard", res.value[1])
    [] pc = "poll:connectCard" ->
         IF ~ok THEN OnPollConnectFailed(W, t, res.error)
         ELSE DoReadCardUid([W EXCEPT !.tasks[t].card = res.value],
                            t, "poll:readCardUid", res.value)
    [] pc = "poll:readCardUid" ->
         DoStatus([W EXCEPT !.tasks[t].uid =
                              IF ok THEN UidOfResponse(res.value) ELSE NullStr],
                  t, "poll:status", W.tasks[t].card.handle)
    [] pc = "poll:status" ->
         AfterCardShownPoll(
           ShowCard(W,
             [status |-> "card", cardUid |-> W.tasks[t].uid,
              cardAtr |-> AtrOf(res), cardInfo |-> CardInfoOf(res),
              error |-> NullStr],
             "Card detected (poll) -- UID: " \o UidOrNone(W.tasks[t].uid)),
           t, W.tasks[t].uid)

\* ------------------------------------------- the client, driven directly

Invoke(cl, m) ==
  CASE m = "establishContext" -> EstablishContext(cl)
    [] m = "listReaders" -> ListReaders(cl)
    [] m = "connectCard" -> ConnectCard(cl, LibReader)
    [] m = "transmit" -> Transmit(cl, 5, SCARD_PROTOCOL_T1, LibApdu)
    [] m = "status" -> Status(cl, 5)
    [] m = "disconnect" -> Disconnect(cl, 5)
    [] m = "getStatusChange" -> GetStatusChange(cl, STATUS_CHANGE_TIMEOUT, LibReaderStates)
    [] m = "cancel" -> Cancel(cl)
    [] m = "releaseContext" -> ReleaseContext(cl)

\* The effect of a client step on the state.
Apply(c, r) ==
  /\ clients' = [clients EXCEPT ![c] = r.cl]
  /\ posted' = [posted EXCEPT ![c] = @ \o r.post]
  /\ promises' =
       [promises EXCEPT ![c] =
         [id \in DOMAIN @ \cup DOMAIN r.settled
                 \cup (IF r.ret.st = "pending" THEN {r.ret.id} ELSE {}) |->
            IF id \in DOMAIN r.settled THEN r.settled[id]
            ELSE IF id \in DOMAIN @ THEN @[id] ELSE Pending]]

InitClient ==
  /\ clients = [c \in ClientIds |-> NewClient]
  /\ chan = [c \in ClientIds |-> "none"]
  /\ posted = [c \in ClientIds |-> <<>>]
  /\ promises = [c \in ClientIds |-> EmptyMap]
  /\ last = [op |-> "new", st |-> "none"]
  /\ client = NoClient
  /\ running = FALSE
  /\ currentState = InitialState
  /\ debugLog = <<>>
  /\ settings = InitialSettings
  /\ storage = FirstRunStorage
  /\ tasks = [t \in TaskIds |-> IdleTask]
  /\ made = 1
  /\ fired = {}
  /\ events = 0
  /\ reqLimit = MaxReq

\* connect(): chrome.runtime.connect throws and the promise is rejected at
\* once, or it returns a port, which replaces _port whatever the client
\* held (_disposed is left as it is), and the promise stays pending until
\* the timer of 100 ms fires: the caller waits for it as a task.
LibConnect ==
  /\ \/ /\ clients' = [clients EXCEPT ![TheClient].port = 1]
        /\ chan' = [chan EXCEPT ![TheClient] = "open"]
        /\ \E t \in TaskIds :
             /\ tasks[t].pc = "idle"
             /\ \A u \in TaskIds : tasks[u].pc = "idle" => t <= u
             /\ tasks' = Sleep(World, t, "connect", 100).tasks
        /\ last' = [op |-> "connect", st |-> "pending"]
     \/ /\ last' = [op |-> "connect", st |-> "rejected"]
        /\ UNCHANGED <<clients, chan, tasks>>
  /\ UNCHANGED <<posted, promises>>

\* The timer of connect() fires: the promise task t waits for is resolved;
\* the client is not looked at.
LibConnectTimer(t) ==
  /\ tasks[t].pc = "connect"
  /\ tasks[t].wait.kind = "timer"
  /\ tasks[t].wait.after = {}
  /\ tasks' = [u \in TaskIds |->
                IF u = t THEN IdleTask
                ELSE [tasks[u] EXCEPT !.wait.after = @ \ {t}]]
  /\ last' = [op |-> "connect", st |-> "resolved"]
  /\ UNCHANGED clientVars

\* The caller invokes one of the methods.
LibInvoke ==
  \E m \in LibMethods :
    LET r == Invoke(clients[TheClient], m) IN
    /\ clients[TheClient].requestId < MaxCalls
    /\ Apply(TheClient, r)
    /\ last' = [op |-> m] @@ r.ret
    /\ UNCHANGED chan

\* A message arrives on the port.
LibOnMessageOf(msg) ==
  LET r == OnMessage(clients[TheClient], msg) IN
  /\ chan[TheClient] # "none"
  /\ Apply(TheClient, [r EXCEPT !.ret = [st |-> "none"]])
  /\ last' = [op |-> "message", st |-> "none", msg |-> msg]
  /\ UNCHANGED chan

LibOnMessage == \E msg \in LibMessages : LibOnMessageOf(msg)

\* The broker's end of the port goes away.
LibOnDisconnect ==
  /\ chan[TheClient] = "open"
  /\ Apply(TheClient, [OnDisconnect(clients[TheClient]) EXCEPT !.ret = [st |-> "none"]])
  /\ chan' = [chan EXCEPT ![TheClient] = "lost"]
  /\ last' = [op |-> "onDisconnect", st |-> "none"]

\* The caller disposes the client.
LibDispose ==
  /\ Apply(TheClient, [Dispose(clients[TheClient]) EXCEPT !.ret = [st |-> "none"]])
  /\ chan' = [chan EXCEPT ![TheClient] = IF @ = "open" THEN "closed" ELSE @]
  /\ last' = [op |-> "dispose", st |-> "none"]

NextClient ==
  \/ LibConnect /\ UNCHANGED hostVars
  \/ (\E t \in TaskIds : LibConnectTimer(t)) /\ UNCHANGED hostVars
  \/ LibInvoke /\ UNCHANGED engineVars
  \/ LibOnMessage /\ UNCHANGED engineVars
  \/ LibOnDisconnect /\ UNCHANGED engineVars
  \/ LibDispose /\ UNCHANGED engineVars

SpecClient == InitClient /\ [][NextClient]_vars

\* ------------------------------------------------- claims on the client

\* The calls of the client whose promise is not settled yet.
Unsettled(c) == {id \in DOMAIN promises[c] : promises[c][id].st = "pending"}
UnsettledAfter(c) == {id \in DOMAIN promises'[c] : promises'[c][id].st = "pending"}

\* C1: when the port disconnects while calls are pending, every one of them
\* is rejected with the disconnect error, the pending table is empty
\* afterwards, and no call issued before the disconnect stays unsettled.
C1_DisconnectRejectsPending ==
  [][(chan[TheClient] = "open" /\ chan'[TheClient] = "lost") =>
       /\ \A id \in Unsettled(TheClient) :
            promises'[TheClient][id] = Rejected(ErrPortDisconnected)
       /\ DOMAIN clients'[TheClient].pending = {}
       /\ UnsettledAfter(TheClient) = {}
       /\ \A id \in 1..clients[TheClient].requestId :
            id \in DOMAIN promises'[TheClient]]_vars

\* C1 happens: the port is lost and two calls were rejected by it.
C1_Witness ==
  /\ chan[TheClient] = "lost"
  /\ Cardinality({id \in DOMAIN promises[TheClient] :
                    promises[TheClient][id] = Rejected(ErrPortDisconnected)}) >= 2

\* C2: a response settles exactly the pending call with the response's id
\* and removes only that entry; a response whose id matches no pending call
\* (never issued, already answered, or after the table was cleared) changes
\* neither the pending table nor any promise; a settled promise never
\* changes again.
C2_ResponseSettlesExactlyItsCall ==
  [][/\ (last'.op = "message" /\ last'.msg.type = ResponseType) =>
          LET msg == last'.msg IN
          IF msg.request_id \in Unsettled(TheClient)
          THEN /\ promises'[TheClient][msg.request_id].st # "pending"
               /\ \A id \in DOMAIN promises[TheClient] \ {msg.request_id} :
                    promises'[TheClient][id] = promises[TheClient][id]
               /\ DOMAIN clients'[TheClient].pending =
                    DOMAIN clients[TheClient].pending \ {msg.request_id}
          ELSE /\ promises' = promises
               /\ clients' = clients
               /\ posted' = posted
     /\ \A id \in DOMAIN promises[TheClient] \ Unsettled(TheClient) :
          promises'[TheClient][id] = promises[TheClient][id]]_vars

\* C2 happens: one call was answered while another is still pending.
C2_Witness ==
  /\ last.op = "message"
  /\ \E id1, id2 \in DOMAIN promises[TheClient] :
       /\ promises[TheClient][id1].st = "resolved"
       /\ promises[TheClient][id2].st = "pending"
       /\ id2 \in DOMAIN clients[TheClient].pending

\* C3: every call that is sent carries an id strictly greater than the id of
\* every call sent before it on the client, so no two calls share an id.
C3_IdsStrictlyIncrease ==
  \A i, j \in 1..Len(posted[TheClient]) :
    i < j => posted[TheClient][i].request_id < posted[TheClient][j].request_id

\* C3 happens: a call was sent after an earlier call had been settled.
C3_Witness ==
  /\ Len(posted[TheClient]) >= 2
  /\ promises[TheClient][posted[TheClient][1].request_id].st # "pending"

\* C4: dispose() rejects every in-flight call and leaves the pending table
\* empty; after dispose() or a disconnect a method invocation settles at
\* once, posts no message and adds no pending entry, and it is rejected
\* whenever the method reaches _call (cancel and releaseContext return
\* before _call, the context being null).
C4_DisposeRejectsAndCloses ==
  [][/\ last'.op = "dispose" =>
          /\ \A id \in Unsettled(TheClient) :
               promises'[TheClient][id] = Rejected(ErrClientDisposed)
          /\ DOMAIN clients'[TheClient].pending = {}
          /\ UnsettledAfter(TheClient) = {}
          /\ chan'[TheClient] # "open"
     /\ (last'.op \in Methods
           /\ (clients[TheClient].disposed \/ chan[TheClient] \in {"lost", "closed"})) =>
          /\ last'.st # "pending"
          /\ last'.op \notin {"cancel", "releaseContext"} => last'.st = "rejected"
          /\ posted' = posted
          /\ clients' = clients
          /\ promises' = promises]_vars

\* C4 happens: dispose() rejected a pending call, and a later call failed.
C4_Witness ==
  /\ last.op = "transmit"
  /\ last.st = "rejected"
  /\ chan[TheClient] = "closed"
  /\ \E id \in DOMAIN promises[TheClient] :
       promises[TheClient][id] = Rejected(ErrClientDisposed)

\* C5: a response with a result tuple resolves the call, with exactly the
\* slots after slot 0, if and only if slot 0 is 0; any other slot 0 rejects
\* it with a PcscError carrying that code; a response with an error field
\* rejects it whatever the tuple. (disconnect and cancel hand the value of
\* _call to their caller unchanged.)
C5_StatusSlotDecides ==
  [][(last'.op = "message" /\ last'.msg.type = ResponseType
          /\ last'.msg.request_id \in DOMAIN clients[TheClient].pending) =>
         LET msg == last'.msg
             p == promises'[TheClient][msg.request_id]
             m == clients[TheClient].pending[msg.request_id]
         IN IF msg.error # UndefinedStr
            THEN p.st = "rejected" /\ p.error.kind = "Error"
            ELSE IF Len(msg.payload) > 0 /\ msg.payload[1] = 0
            THEN /\ p.st = "resolved"
                 /\ m \in {"disconnect", "cancel"} => p.value = Tail(msg.payload)
            ELSE /\ p.st = "rejected"
                 /\ p.error.kind = "PcscError"
                 /\ p.error.code = (IF Len(msg.payload) > 0 THEN msg.payload[1]
                                     ELSE Undefined)]_vars

\* C5 happens: one call was resolved with its result slots and another
\* rejected with the broker's code.
C5_Witness ==
  /\ Len(posted[TheClient]) >= 2
  /\ posted[TheClient][1].function_name = "SCardDisconnect"
  /\ promises[TheClient][1] = Resolved(<<7, 8>>)
  /\ promises[TheClient][2] = Rejected(PcscError(SCARD_E_TIMEOUT))
  /\ last.op = "message"

\* C6 (as claimed): establishContext() on a client that holds a context
\* sends no further SCardEstablishContext and keeps the handle.
C6_EstablishContextIdempotent ==
  [][(last'.op = "establishContext" /\ clients[TheClient].context # Null) =>
       /\ posted' = posted
       /\ clients'[TheClient].context = clients[TheClient].context]_vars

\* ------------------------------------------------- the engine's environment

\* What chrome.storage.local may hold when the worker starts: nothing (first
\* run), or the saved settings of an earlier run.
SavedStorage ==
  [detectionMode |-> "poll", endpointUrl |-> "https://api", venueId |-> "v1",
   clientId |-> MaxTasks + 1]
InitialStorages == {FirstRunStorage, SavedStorage}

EndpointUrls == {"", "https://api"}
DetectionModes == {"event", "poll"}
VenueIds == {"v1", "v2"}

\* The ATR the broker reports for the card.
CardAtr == <<59, 143, 128, 1, 128, 79, 12, 160, 0, 0, 3, 6, 3, 0, 1, 0, 0, 0, 0, 106>>

\* The result tuples the broker answers a call of method m on client c with.
BrokerPayloads(m, c) ==
  CASE m = "establishContext" -> {<<0, 70 + c>>, <<6>>}
    [] m = "listReaders" -> {<<0, <<>>>>, <<0, <<LibReader>>>>, <<6>>}
    [] m = "connectCard" -> {<<0, 5, SCARD_PROTOCOL_T1>>, <<6>>}
    [] m = "transmit" ->
         {<<0, [protocol |-> SCARD_PROTOCOL_T1], <<4, 161, 144, 0>>>>,
          <<0, [protocol |-> SCARD_PROTOCOL_T1], <<106, 129>>>>}
    [] m = "status" -> {<<0, LibReader, 52, SCARD_PROTOCOL_T1, CardAtr>>, <<6>>}
    [] m = "getStatusChange" ->
         {<<0, <<[reader_name |-> LibReader, event_state |-> 34]>>>>,
          <<0, <<[reader_name |-> LibReader, event_state |-> 18]>>>>,
          <<SCARD_E_TIMEOUT>>, <<SCARD_E_CANCELLED>>, <<6>>}
    [] OTHER -> {<<0>>}

\* What fetch and the reading of the response body end with (duration: the
\* milliseconds performance.now() measured). A response arrives with its
\* status line; bodyError is the message of the error resp.json() or
\* resp.text() raises on its body (a body announced as JSON that is not),
\* NullStr when the body is read.
FetchOutcomes ==
  {Resolved([status |-> 200, statusText |-> "OK", body |-> "ok", duration |-> 12,
             bodyError |-> NullStr]),
   Resolved([status |-> 500, statusText |-> "Internal Server Error",
             body |-> "error", duration |-> 12, bodyError |-> NullStr]),
   Resolved([status |-> 200, statusText |-> "OK", body |-> "", duration |-> 12,
             bodyError |-> "Unexpected end of JSON input"]),
   Rejected(JsError("Failed to fetch"))}

\* What a resendRequest message carries: (url, body), each possibly absent.
ResendMessages ==
  {[url |-> UndefinedStr, body |-> NoRecord],
   [url |-> "https://other", body |-> [card_id |-> "FEED"]]}

\* ------------------------------------------------------ the engine's steps

\* The continuation of task t is queued as a microtask.
Runnable(t) ==
  IF tasks[t].wait.kind = "call"
  THEN promises[tasks[t].wait.c][tasks[t].wait.id].st # "pending"
  ELSE tasks[t].wait.kind = "ready"

\* The microtask queue is empty: the event loop takes the next event.
Quiet == \A t \in TaskIds : ~Runnable(t)

\* The bounds of the model.
Within(W) ==
  /\ W.made <= MaxClients
  /\ \A c \in ClientIds : W.clients[c].requestId <= reqLimit

Idle(t) == tasks[t].pc = "idle"
HasFreeSlot == \E t \in TaskIds : Idle(t)
FreeSlot == CHOOSE t \in TaskIds : Idle(t) /\ \A u \in TaskIds : Idle(u) => t <= u

Step2(W) == Within(W) /\ SetWorld(W) /\ UNCHANGED <<last, reqLimit>>

\* Whether chrome.runtime.connect returns a port is open where the
\* continuation of task t constructs a client.
PortChoices(t) ==
  IF tasks[t].pc \in {"start:loadSettings", "start:saveClientId"}
  THEN BOOLEAN ELSE {TRUE}

\* The promise task t awaits, once its continuation has read it, is garbage.
Consumed(W, t) ==
  LET w == W.tasks[t].wait IN
  IF w.kind = "call"
  THEN [W EXCEPT !.promises[w.c] = MapDelete(@, w.id)]
  ELSE W

\* A queued continuation runs.
RunTask(t) ==
  /\ Runnable(t)
  /\ IF tasks[t].pc \in {"start:loadSettings", "start:saveClientId"}
     THEN made < MaxClients ELSE TRUE
  /\ LET res == IF tasks[t].wait.kind = "call"
                THEN promises[tasks[t].wait.c][tasks[t].wait.id]
                ELSE tasks[t].res
     IN \E portOk \in PortChoices(t) :
          Step2(Resume(Consumed(World, t), t, res, portOk))
  /\ UNCHANGED <<storage, fired, events>>

\* What task t awaits settles with res: its continuation is queued.
Settle(W, t, res) ==
  [W EXCEPT !.tasks[t].wait = Ready, !.tasks[t].res = res]

\* The timer of task t has fired: no timer waits for it any longer.
Fired(W, t) ==
  [W EXCEPT !.tasks = [u \in DOMAIN @ |->
                         [@[u] EXCEPT !.wait.after = @ \ {t}]]]

\* A timer fires: the sleep or the connect delay of task t is over.
TimerFires(t) ==
  /\ Quiet
  /\ tasks[t].wait.kind = "timer"
  /\ tasks[t].wait.after = {}
  /\ Step2(Fired(Settle(World, t, Resolved(Undefined)), t))
  /\ UNCHANGED <<storage, fired, events>>

\* The HTTP exchange of task t ends.
FetchDone(t) ==
  /\ Quiet
  /\ tasks[t].wait.kind = "fetch"
  /\ \E out \in FetchOutcomes : Step2(Settle(World, t, out))
  /\ UNCHANGED <<storage, fired, events>>

\* chrome.storage.local.get answers task t.
StorageReply(t) ==
  /\ Quiet
  /\ tasks[t].wait.kind = "storage.get"
  /\ Step2(Settle(World, t, Resolved(storage)))
  /\ UNCHANGED <<storage, fired, events>>

\* chrome.storage.local.set({clientId}) of task t is carried out: the value
\* is stored and the onChanged listener takes the change over; the promise
\* of set is resolved by a later callback.
StorageChanged(t) ==
  /\ Quiet
  /\ tasks[t].wait.kind = "storage.set"
  /\ storage' = [storage EXCEPT !.clientId = t]
  /\ LET W1 == IF storage.clientId # t
               THEN [World EXCEPT !.settings.clientId = t] ELSE World
     IN Step2([W1 EXCEPT !.tasks[t].wait = StorageWritten])
  /\ UNCHANGED <<fired, events>>

\* The promise of chrome.storage.local.set of task t is resolved.
StorageSetDone(t) ==
  /\ Quiet
  /\ tasks[t].wait.kind = "storage.written"
  /\ Step2(Settle(World, t, Resolved(Undefined)))
  /\ UNCHANGED <<storage, fired, events>>

\* The broker has taken request id off the port of client c.
Taken(W, c, id) ==
  [W EXCEPT !.posted[c] = SelectSeq(@, LAMBDA m : m.request_id # id)]

\* The broker answers call id of client c.
BrokerReply(c, id) ==
  /\ Quiet
  /\ chan[c] = "open"
  /\ id \in DOMAIN clients[c].pending
  /\ \E p \in BrokerPayloads(clients[c].pending[id], c) :
       LET msg == [type |-> ResponseType, request_id |-> id, payload |-> p,
                   error |-> UndefinedStr]
       IN Step2(Taken(ApplyW(World, c, NoRet(OnMessage(clients[c], msg))), c, id))
  /\ UNCHANGED <<storage, fired, events>>

\* One more event of the browser, the options page or the popup.
Delivered == events < MaxEvents /\ events' = events + 1

\* The broker's end of the port of client c goes away: the port's
\* onDisconnect listener runs.
PortLost(c) ==
  /\ Quiet
  /\ chan[c] = "open"
  /\ Step2([ApplyW(World, c, NoRet(OnDisconnect(clients[c]))) EXCEPT !.chan[c] = "lost"])
  /\ UNCHANGED <<storage, fired>>

\* The loss of the port of client c as one of the counted events.
PortDisconnect(c) == PortLost(c) /\ Delivered

\* chrome.runtime.onInstalled or onStartup: start().
LifecycleEvent(e) ==
  /\ Quiet
  /\ e \notin fired
  /\ HasFreeSlot
  /\ Delivered
  /\ fired' = fired \cup {e}
  /\ Step2(Start(World, FreeSlot))
  /\ UNCHANGED storage

\* The detection mode is saved in the options: the onChanged listener
\* takes it over and calls restart().
ModeChanged(m) ==
  /\ Quiet
  /\ storage.detectionMode # m
  /\ HasFreeSlot
  /\ storage' = [storage EXCEPT !.detectionMode = m]
  /\ Delivered
  /\ Step2(Restart([World EXCEPT !.settings.detectionMode = m], FreeSlot))
  /\ UNCHANGED fired

\* The onChanged listener calling restart() for a change of the endpoint URL.
EndpointChanged_Restarts(u) ==
  /\ Quiet
  /\ storage.endpointUrl # u
  /\ HasFreeSlot
  /\ storage' = [storage EXCEPT !.endpointUrl = u]
  /\ Delivered
  /\ Step2(Restart([World EXCEPT !.settings.endpointUrl = u], FreeSlot))
  /\ UNCHANGED fired

\* The endpoint URL is saved in the options: the onChanged listener takes
\* it over.
EndpointChanged(u) ==
  /\ Quiet
  /\ storage.endpointUrl # u
  /\ storage' = [storage EXCEPT !.endpointUrl = u]
  /\ Delivered
  /\ Step2([World EXCEPT !.settings.endpointUrl = u])
  /\ UNCHANGED fired

\* The venue is saved in the options: the onChanged listener takes it over.
VenueChanged(v) ==
  /\ Quiet
  /\ storage.venueId # v
  /\ storage' = [storage EXCEPT !.venueId = v]
  /\ Delivered
  /\ Step2([World EXCEPT !.settings.venueId = v])
  /\ UNCHANGED fired

\* needsRestart without the look at the Session.
NeedsRestart_IgnoresSession ==
  IF ~running THEN TRUE ELSE client = NoClient

\* The keepalive alarm's needsRestart.
NeedsRestart ==
  IF ~running THEN TRUE
  ELSE IF client = NoClient THEN TRUE
  ELSE ~IsConnected(clients[client])

\* The keepalive alarm fires: its listener calls restart() when it finds the
\* engine unhealthy and does nothing otherwise.
Alarm ==
  /\ Quiet
  /\ Delivered
  /\ IF NeedsRestart
     THEN /\ HasFreeSlot
          /\ Step2(Restart(AddLog(World, "warn",
                                   "Keepalive detected stale connection, restarting",
                                   NoDetail),
                            FreeSlot))
     ELSE Step2(World)
  /\ UNCHANGED <<storage, fired>>

\* The popup sends resendRequest: callEndpoint is called and not awaited.
Resend(msg) ==
  /\ Quiet
  /\ HasFreeSlot
  /\ LET uid == IF msg.body # NoRecord /\ Truthy(msg.body.card_id) THEN msg.body.card_id
                ELSE IF Truthy(currentState.cardUid) THEN currentState.cardUid
                ELSE "unknown"
     IN Step2(CallEndpoint(AddLog(World, "info", "Resend triggered from popup", NoDetail),
                           FreeSlot, uid, msg.url, msg.body, "none"))
  /\ Delivered
  /\ UNCHANGED <<storage, fired>>

\* The popup sends clearLog.
ClearLogMessage ==
  /\ Quiet
  /\ Delivered
  /\ Step2(ClearLog(World))
  /\ UNCHANGED <<storage, fired>>

\* The state once the module has been evaluated: start() has run to its
\* first await.
Init ==
  /\ clients = [c \in ClientIds |-> NewClient]
  /\ chan = [c \in ClientIds |-> "none"]
  /\ posted = [c \in ClientIds |-> <<>>]
  /\ promises = [c \in ClientIds |-> EmptyMap]
  /\ last = [op |-> "new", st |-> "none"]
  /\ client = NoClient
  /\ running = TRUE
  /\ currentState = InitialState
  /\ debugLog = <<>>
  /\ settings = InitialSettings
  /\ storage \in InitialStorages
  /\ tasks = [t \in TaskIds |->
                IF t = 1 THEN [IdleTask EXCEPT !.pc = "start:loadSettings",
                                               !.wait = StorageGet, !.res = Pending]
                ELSE IdleTask]
  /\ made = 0
  /\ fired = {}
  /\ events = 0
  /\ reqLimit = MaxReq

Next ==
  \/ \E t \in TaskIds : RunTask(t)
  \/ \E t \in TaskIds : TimerFires(t)
  \/ \E t \in TaskIds : FetchDone(t)
  \/ \E t \in TaskIds : StorageReply(t)
  \/ \E t \in TaskIds : StorageChanged(t)
  \/ \E t \in TaskIds : StorageSetDone(t)
  \/ \E c \in ClientIds : \E id \in 1..MaxReq : BrokerReply(c, id)
  \/ \E c \in ClientIds : PortDisconnect(c)
  \/ \E e \in {"onInstalled", "onStartup"} : LifecycleEvent(e)
  \/ \E m \in DetectionModes : ModeChanged(m)
  \/ \E u \in EndpointUrls : EndpointChanged(u)
  \/ \E v \in VenueIds : VenueChanged(v)
  \/ Alarm
  \/ \E msg \in ResendMessages : Resend(msg)
  \/ ClearLogMessage

Spec == Init /\ [][Next]_vars

\* The behaviours of Spec in which chrome.storage.local answers at once:
\* while a task awaits storage, nothing else happens.
StorageIdle ==
  \A t \in TaskIds :
    tasks[t].wait.kind \notin {"storage.get", "storage.set", "storage.written"}

NextQuickStorage ==
  \/ \E t \in TaskIds : RunTask(t)
  \/ \E t \in TaskIds : StorageReply(t)
  \/ \E t \in TaskIds : StorageChanged(t)
  \/ \E t \in TaskIds : StorageSetDone(t)
  \/ \E t \in TaskIds : StorageIdle /\ TimerFires(t)
  \/ \E t \in TaskIds : StorageIdle /\ FetchDone(t)
  \/ \E c \in ClientIds : \E id \in 1..MaxReq : StorageIdle /\ BrokerReply(c, id)
  \/ \E c \in ClientIds : StorageIdle /\ PortDisconnect(c)
  \/ \E e \in {"onInstalled", "onStartup"} : StorageIdle /\ LifecycleEvent(e)
  \/ \E m \in DetectionModes : StorageIdle /\ ModeChanged(m)
  \/ \E u \in EndpointUrls : StorageIdle /\ EndpointChanged(u)
  \/ \E v \in VenueIds : StorageIdle /\ VenueChanged(v)
  \/ StorageIdle /\ Alarm
  \/ \E msg \in ResendMessages : StorageIdle /\ Resend(msg)
  \/ StorageIdle /\ ClearLogMessage

SpecQuickStorage == Init /\ [][NextQuickStorage]_vars

\* The worker woken by the keepalive alarm: the module is evaluated (start()
\* runs to its first await) and the alarm's listener runs next; it finds
\* client null and calls restart(), which sleeps. events counts the events
\* delivered after that. The alarm was created by an earlier evaluation of
\* the module, so the worker has run before and its settings are stored.
InitAlarmWake ==
  /\ clients = [c \in ClientIds |-> NewClient]
  /\ chan = [c \in ClientIds |-> "none"]
  /\ posted = [c \in ClientIds |-> <<>>]
  /\ promises = [c \in ClientIds |-> EmptyMap]
  /\ last = [op |-> "new", st |-> "none"]
  /\ client = NoClient
  /\ running = FALSE
  /\ currentState = InitialState
  /\ debugLog = <<[level |-> "warn",
                   message |-> "Keepalive detected stale connection, restarting",
                   detail |-> NoDetail]>>
  /\ settings = InitialSettings
  /\ storage = SavedStorage
  /\ tasks = [t \in TaskIds |->
                IF t = 1 THEN [IdleTask EXCEPT !.pc = "start:loadSettings",
                                               !.wait = StorageGet, !.res = Pending]
                ELSE IF t = 2
                THEN [IdleTask EXCEPT !.pc = "restart:sleep",
                                      !.wait = [Wait("timer") EXCEPT !.ms = 500],
                                      !.res = Pending]
                ELSE IdleTask]
  /\ made = 0
  /\ fired = {}
  /\ events = 0
  /\ reqLimit = MaxReq

\* What happens to the woken worker: its settings are stored, so start()
\* saves no client id; onInstalled and onStartup are not delivered to a
\* worker that is woken; the popup is not open.
NextAlarmWake ==
  \/ \E t \in TaskIds : RunTask(t)
  \/ \E t \in TaskIds : TimerFires(t)
  \/ \E t \in TaskIds : FetchDone(t)
  \/ \E t \in TaskIds : StorageReply(t)
  \/ \E c \in ClientIds : \E id \in 1..MaxReq : BrokerReply(c, id)
  \/ \E c \in ClientIds : PortDisconnect(c)
  \/ \E m \in DetectionModes : ModeChanged(m)
  \/ \E u \in EndpointUrls : EndpointChanged(u)
  \/ \E v \in VenueIds : VenueChanged(v)
  \/ Alarm

SpecAlarmWake == InitAlarmWake /\ [][NextAlarmWake]_vars

\* The worker in polling mode (the settings of an earlier run saved),
\* followed for more requests than in Spec: no options page or popup is
\* open, and the keepalive alarm and the lifecycle events do not fall into
\* the time explored. The port may be lost.
InitPoll ==
  /\ clients = [c \in ClientIds |-> NewClient]
  /\ chan = [c \in ClientIds |-> "none"]
  /\ posted = [c \in ClientIds |-> <<>>]
  /\ promises = [c \in ClientIds |-> EmptyMap]
  /\ last = [op |-> "new", st |-> "none"]
  /\ client = NoClient
  /\ running = TRUE
  /\ currentState = InitialState
  /\ debugLog = <<>>
  /\ settings = InitialSettings
  /\ storage = SavedStorage
  /\ tasks = [t \in TaskIds |->
                IF t = 1 THEN [IdleTask EXCEPT !.pc = "start:loadSettings",
                                               !.wait = StorageGet, !.res = Pending]
                ELSE IdleTask]
  /\ made = 0
  /\ fired = {}
  /\ events = 0
  /\ reqLimit = MaxPollReq

NextPoll ==
  \/ \E t \in TaskIds : RunTask(t)
  \/ \E t \in TaskIds : TimerFires(t)
  \/ \E t \in TaskIds : FetchDone(t)
  \/ \E t \in TaskIds : StorageReply(t)
  \/ \E c \in ClientIds : \E id \in 1..MaxPollReq : BrokerReply(c, id)
  \/ \E c \in ClientIds : PortDisconnect(c)

SpecPoll == InitPoll /\ [][NextPoll]_vars

\* The worker under the keepalive alarm alone: no options page or popup is
\* open and no lifecycle event falls into the time explored, so the alarm's
\* ticks are the only events counted. The port may be lost at any time.
NextTick ==
  \/ \E t \in TaskIds : RunTask(t)
  \/ \E t \in TaskIds : TimerFires(t)
  \/ \E t \in TaskIds : FetchDone(t)
  \/ \E t \in TaskIds : StorageReply(t)
  \/ \E t \in TaskIds : StorageChanged(t)
  \/ \E t \in TaskIds : StorageSetDone(t)
  \/ \E c \in ClientIds : \E id \in 1..MaxReq : BrokerReply(c, id)
  \/ \E c \in ClientIds : PortLost(c) /\ UNCHANGED events
  \/ Alarm

SpecTick == Init /\ [][NextTick]_vars

\* The event log alone: addLog and the clearLog message in any order, the
\* engine at rest. events counts the entries appended so far, last.since
\* those appended since the log was last empty by construction or by
\* clearLog. The k-th entry appended is EntryNo(k).
LogLevels == <<"info", "warn", "error">>

EntryNo(k) ==
  [level |-> LogLevels[(k % 3) + 1],
   message |-> "entry " \o ToDecimal(k),
   detail |-> IF k % 2 = 0 THEN NoDetail ELSE Detail(k)]

InitLog ==
  /\ clients = [c \in ClientIds |-> NewClient]
  /\ chan = [c \in ClientIds |-> "none"]
  /\ posted = [c \in ClientIds |-> <<>>]
  /\ promises = [c \in ClientIds |-> EmptyMap]
  /\ last = [op |-> "new", since |-> 0]
  /\ client = NoClient
  /\ running = FALSE
  /\ currentState = InitialState
  /\ debugLog = <<>>
  /\ settings = InitialSettings
  /\ storage = FirstRunStorage
  /\ tasks = [t \in TaskIds |-> IdleTask]
  /\ made = 0
  /\ fired = {}
  /\ events = 0
  /\ reqLimit = MaxReq

\* addLog is called with the next entry.
LogAppend ==
  /\ events < MaxAppends
  /\ LET entry == EntryNo(events + 1)
     IN SetWorld(AddLog(World, entry.level, entry.message, entry.detail))
  /\ events' = events + 1
  /\ last' = [op |-> "append", since |-> last.since + 1]
  /\ UNCHANGED <<storage, fired, reqLimit>>

\* The popup sends clearLog.
LogClear ==
  /\ SetWorld(ClearLog(World))
  /\ last' = [op |-> "clear", since |-> 0]
  /\ UNCHANGED <<storage, fired, events, reqLimit>>

NextLog == LogAppend \/ LogClear

SpecLog == InitLog /\ [][NextLog]_vars

\* The worker in event mode with an endpoint configured (the settings of an
\* earlier run saved), followed through the reading of a card and its
\* dispatch, with the popup open: resendRequest is the only counted event.
EventStorage ==
  [detectionMode |-> "event", endpointUrl |-> "https://api", venueId |-> "v1",
   clientId |-> MaxTasks + 1]

InitDispatch ==
  /\ clients = [c \in ClientIds |-> NewClient]
  /\ chan = [c \in ClientIds |-> "none"]
  /\ posted = [c \in ClientIds |-> <<>>]
  /\ promises = [c \in ClientIds |-> EmptyMap]
  /\ last = [op |-> "new", st |-> "none"]
  /\ client = NoClient
  /\ running = TRUE
  /\ currentState = InitialState
  /\ debugLog = <<>>
  /\ settings = InitialSettings
  /\ storage = EventStorage
  /\ tasks = [t \in TaskIds |->
                IF t = 1 THEN [IdleTask EXCEPT !.pc = "start:loadSettings",
                                               !.wait = StorageGet, !.res = Pending]
                ELSE IdleTask]
  /\ made = 0
  /\ fired = {}
  /\ events = 0
  /\ reqLimit = MaxEventReq

NextDispatch ==
  \/ \E t \in TaskIds : RunTask(t)
  \/ \E t \in TaskIds : TimerFires(t)
  \/ \E t \in TaskIds : FetchDone(t)
  \/ \E t \in TaskIds : StorageReply(t)
  \/ \E c \in ClientIds : \E id \in 1..MaxEventReq : BrokerReply(c, id)
  \/ \E msg \in ResendMessages : Resend(msg)

SpecDispatch == InitDispatch /\ [][NextDispatch]_vars

\* The worker of SpecDispatch after the popup has resent a request with its
\* own URL and body and the answer has been recorded, start() waiting for
\* its port meanwhile.
LastRequest ==
  [kind |-> "request", url |-> "https://other", body |-> [card_id |-> "FEED"]]

AfterOverrideResend ==
  /\ clients = [c \in ClientIds |->
                  IF c = 1 THEN [NewClient EXCEPT !.port = 1] ELSE NewClient]
  /\ chan = [c \in ClientIds |-> IF c = 1 THEN "open" ELSE "none"]
  /\ posted = [c \in ClientIds |-> <<>>]
  /\ promises = [c \in ClientIds |-> EmptyMap]
  /\ last = [op |-> "new", st |-> "none"]
  /\ client = 1
  /\ running = TRUE
  /\ currentState =
       [InitialState EXCEPT
          !.status = "connecting",
          !.apiRequest = LastRequest,
          !.apiResponse = [kind |-> "response", status |-> 200, body |-> "ok"]]
  /\ debugLog =
       <<[level |-> "info", message |-> "Resend triggered from popup",
          detail |-> NoDetail],
         [level |-> "info", message |-> "Sending POST to https://other",
          detail |-> Detail(LastRequest.body)],
         [level |-> "info", message |-> "Response: 200 OK (12ms)",
          detail |-> Detail("ok")]>>
  /\ settings = EventStorage
  /\ storage = EventStorage
  /\ tasks = [t \in TaskIds |->
                IF t = 1
                THEN [IdleTask EXCEPT !.pc = "start:connect",
                                      !.wait = [Wait("timer") EXCEPT !.ms = 100],
                                      !.res = Pending]
                ELSE IdleTask]
  /\ made = 1
  /\ fired = {}
  /\ reqLimit = MaxEventReq

\* events counts the events delivered after that resend.
InitResend == AfterOverrideResend /\ events = 0

\* The resendRequest messages that name no URL: no overrides at all, or a
\* body only.
ResendWithoutUrl ==
  {[url |-> UndefinedStr, body |-> NoRecord],
   [url |-> UndefinedStr, body |-> [card_id |-> "BEEF"]]}

NextResend ==
  \/ \E t \in TaskIds : RunTask(t)
  \/ \E t \in TaskIds : TimerFires(t)
  \/ \E t \in TaskIds : FetchDone(t)
  \/ \E c \in ClientIds : \E id \in 1..MaxEventReq : BrokerReply(c, id)
  \/ \E msg \in ResendWithoutUrl : Resend(msg)

SpecResend == InitResend /\ [][NextResend]_vars

\* parseAtr alone, on a set of byte sequences around the ATR of a MIFARE
\* Classic 1K card as a PC/SC reader reports it (CardAtr): its prefixes (the
\* empty and the too-short sequences among them), the same bytes under
\* every T0 from 0x80 to 0x8F (fewer historical bytes announced, which cuts
\* the application-identifier TLV short), other card-name bytes, another
\* first byte, and the short sequences over 0x3B and 0x80. last holds the
\* sequence and, once parseAtr has run, what it returned.
AtrPrefixes == {SubSeq(CardAtr, 1, n) : n \in 0..Len(CardAtr)}
AtrOtherT0 == {[CardAtr EXCEPT ![2] = t0] : t0 \in 128..143}
AtrOtherNames ==
  {[CardAtr EXCEPT ![14] = hi, ![15] = lo] : hi \in {0, 255}, lo \in {1, 2, 3, 64}}
AtrOtherStart == {[CardAtr EXCEPT ![1] = 63], <<63, 128, 128, 1, 0, 0>>,
                  <<59, 128, 128, 1, 0, 0>>, <<59, 129, 128, 1, 0, 0>>,
                  <<59, 1, 128, 1, 0, 0>>}
AtrShort ==
  UNION {[1..n -> {59, 128}] : n \in 0..3}
AtrInputs ==
  AtrPrefixes \cup AtrOtherT0 \cup AtrOtherNames \cup AtrOtherStart \cup AtrShort

InitAtr ==
  /\ clients = [c \in ClientIds |-> NewClient]
  /\ chan = [c \in ClientIds |-> "none"]
  /\ posted = [c \in ClientIds |-> <<>>]
  /\ promises = [c \in ClientIds |-> EmptyMap]
  /\ \E a \in AtrInputs : last = [op |-> "new", atr |-> a]
  /\ client = NoClient
  /\ running = FALSE
  /\ currentState = InitialState
  /\ debugLog = <<>>
  /\ settings = InitialSettings
  /\ storage = FirstRunStorage
  /\ tasks = [t \in TaskIds |-> IdleTask]
  /\ made = 0
  /\ fired = {}
  /\ events = 0
  /\ reqLimit = MaxReq

\* parseAtr(atrBytes) is called.
ParseAtrCall ==
  /\ last.op = "new"
  /\ last' = [op |-> "parseAtr", atr |-> last.atr, info |-> ParseAtr(last.atr)]
  /\ UNCHANGED <<clients, chan, posted, promises, client, running, currentState,
                 debugLog, settings, storage, tasks, made, fired, events, reqLimit>>

SpecAtr == InitAtr /\ [][ParseAtrCall]_vars

\* ------------------------------------------------- claims on the engine

\* The awaits inside runEventLoop and runPollLoop, readCard and a
\* callEndpoint they await included.
LoopPcs ==
  {"event:listReaders", "event:sleep", "event:getStatusChange",
   "readCard:connectCard", "readCard:readCardUid", "readCard:status",
   "readCard:disconnect", "poll:statusHeld", "poll:disconnectHeld", "poll:sleep",
   "poll:listReaders", "poll:connectCard", "poll:readCardUid", "poll:status"}

\* Task t is an invocation of runEventLoop or runPollLoop that has not
\* returned.
InLoop(t) ==
  IF tasks[t].pc \in {"callEndpoint:fetch", "callEndpoint:returned"}
  THEN tasks[t].back # "none"
  ELSE tasks[t].pc \in LoopPcs

\* Task t is a callEndpoint that has recorded its request and not yet its
\* response.
Dispatching(t) == tasks[t].pc = "callEndpoint:fetch"

\* A SCardReleaseContext for context ctx is among the messages msgs.
ReleaseSent(msgs, ctx) ==
  \E i \in 1..Len(msgs) :
    /\ msgs[i].function_name = "SCardReleaseContext"
    /\ msgs[i].arguments = <<ctx>>

\* C7: whenever the engine drops a client that holds a context (restart(),
\* or the recovery at the end of start()), a release-context command for
\* that context has been sent on its port and the port is closed.
C7_DropReleasesContext ==
  [][(client # NoClient /\ client' = NoClient /\ clients[client].context # Null) =>
       /\ ReleaseSent(posted'[client], clients[client].context)
       /\ chan'[client] = "closed"]_vars

\* C8: at every moment at most one client has an open port.
C8_AtMostOneOpenChannel ==
  Cardinality({c \in ClientIds : chan[c] = "open"}) <= 1

\* C9: at every moment at most one invocation of runEventLoop or
\* runPollLoop is live, when every start() after the first comes from
\* restart() or from the recovery (onInstalled and onStartup have not
\* called start()): the loop of the earlier start() has returned before
\* the loop of the later one begins. Checked where storage answers at
\* once, so that a loop outlives a restart() only by being suspended in a
\* sleep or a dispatch.
C9_AtMostOneLoop ==
  fired = {} => Cardinality({t \in TaskIds : InLoop(t)}) <= 1

\* C10: at every moment at most one callEndpoint is between recording its
\* request and recording its response.
C10_AtMostOneDispatch ==
  Cardinality({t \in TaskIds : Dispatching(t)}) <= 1

\* The state InitAlarmWake describes, as Spec reaches it.
AlarmWakeReached ==
  /\ events = 1
  /\ running = FALSE
  /\ debugLog = <<[level |-> "warn",
                   message |-> "Keepalive detected stale connection, restarting",
                   detail |-> NoDetail]>>
  /\ tasks[1] = [IdleTask EXCEPT !.pc = "start:loadSettings",
                                 !.wait = StorageGet, !.res = Pending]
  /\ tasks[2] = [IdleTask EXCEPT !.pc = "restart:sleep",
                                 !.wait = [Wait("timer") EXCEPT !.ms = 500],
                                 !.res = Pending]
  /\ made = 0 /\ client = NoClient /\ currentState = InitialState
  /\ settings = InitialSettings

\* C11: when a restart() that sent a cancel on a Session goes on after the
\* cancel has settled, that Session (the old one) is disposed.
C11_RestartDisposesCancelled ==
  [][\A t \in TaskIds :
       (/\ tasks[t].pc = "restart:cancel"
        /\ tasks[t].wait.kind = "call"
        /\ tasks'[t].pc # "restart:cancel")
       => clients'[tasks[t].wait.c].disposed]_vars

\* Task t has returned, or waits in runEventLoop for the reader's state to
\* change.
AtRest(t) ==
  \/ tasks[t].pc = "idle"
  \/ /\ tasks[t].pc = "event:getStatusChange"
     /\ tasks[t].wait.kind = "call"
     /\ promises[tasks[t].wait.c][tasks[t].wait.id].st = "pending"

\* C12: the engine does not rest in 'error': when the status is 'error' and
\* no timer, storage operation, dispatch or call other than the wait for a
\* status change is outstanding, the next health tick restarts the engine
\* (otherwise only a card or reader event can end the error status, and
\* 'connecting' is not reached).
C12_FaultedRecovers ==
  (currentState.status = "error" /\ \A t \in TaskIds : AtRest(t)) => NeedsRestart

\* The continuation of task t, suspended in getStatusChange, runs on the
\* rejection e of that call.
WaitFailed(t) ==
  /\ tasks[t].pc = "event:getStatusChange"
  /\ tasks[t].wait.kind = "call"
  /\ promises[tasks[t].wait.c][tasks[t].wait.id].st = "rejected"

WaitError(t) == promises[tasks[t].wait.c][tasks[t].wait.id].error

TimedOut(t) ==
  /\ WaitFailed(t)
  /\ WaitError(t).kind = "PcscError"
  /\ WaitError(t).code = SCARD_E_TIMEOUT

Resumes(t) == tasks'[t] # tasks[t]

\* The step posts one SCardGetStatusChange on client c, for the reader
\* states task t held before the step.
ReissuedOn(t, c) ==
  /\ Len(posted'[c]) = Len(posted[c]) + 1
  /\ LET m == posted'[c][Len(posted'[c])] IN
       /\ m.function_name = "SCardGetStatusChange"
       /\ m.arguments[3] = <<[reader_name |-> LibReader,
                               current_state |-> tasks[t].rs]>>
  /\ tasks'[t].pc = "event:getStatusChange"
  /\ tasks'[t].wait.kind = "call"
  /\ tasks'[t].rs = tasks[t].rs

\* C13 as stated: a timeout result of getStatusChange makes the loop issue
\* the wait again, for the same reader states, and leaves currentState
\* (the request and response records included) and the log as they were.
C13_TimeoutReissues ==
  [][\A t \in TaskIds :
       (TimedOut(t) /\ Resumes(t)) =>
         /\ \E c \in ClientIds : ReissuedOn(t, c)
         /\ currentState' = currentState
         /\ debugLog' = debugLog]_vars

\* C13 as amended: the wait is issued again, on the same Session, when
\* running is still set and the engine still holds the Session the wait
\* was issued on; when running has been cleared the loop returns and no
\* wait is issued. In both cases currentState and the log stay as they were.
C13_TimeoutReissuesWhileRunning ==
  [][\A t \in TaskIds :
       (TimedOut(t) /\ Resumes(t)) =>
         /\ (running /\ client = tasks[t].wait.c) =>
               /\ ReissuedOn(t, client)
               /\ currentState' = currentState
               /\ debugLog' = debugLog
         /\ ~running =>
               /\ tasks'[t].pc = "start:loop"
               /\ posted' = posted
               /\ currentState' = currentState
               /\ debugLog' = debugLog]_vars

\* A timeout result has arrived at a loop that is running on its Session.
C13_Witness ==
  \E t \in TaskIds : TimedOut(t) /\ running /\ client = tasks[t].wait.c

\* An invocation of restart() has not yet called start().
RestartUnderway ==
  \E u \in TaskIds : tasks[u].pc \in {"restart:cancel", "restart:sleep"}

Cancelled(t) ==
  /\ WaitFailed(t)
  /\ WaitError(t).kind = "PcscError"
  /\ WaitError(t).code = SCARD_E_CANCELLED

RejectedByDispose(t) ==
  /\ WaitFailed(t)
  /\ WaitError(t).kind = "Error"
  /\ WaitError(t) = ErrClientDisposed

SetsError == currentState'.status = "error" /\ currentState' # currentState

\* C14: the outcome a restart gives the old loop's outstanding wait does not
\* set the status to 'error': neither a cancellation result, nor, while a
\* restart() is underway, the rejection of the wait by dispose().
C14_RestartWaitIsNotAFault ==
  [][\A t \in TaskIds :
       Resumes(t) =>
         /\ Cancelled(t) => ~SetsError
         /\ (RestartUnderway /\ RejectedByDispose(t)) => ~SetsError]_vars

\* The outcome of what task t awaits.
Awaited(t) ==
  IF tasks[t].wait.kind = "call"
  THEN promises[tasks[t].wait.c][tasks[t].wait.id]
  ELSE tasks[t].res

\* The step posts one SCardDisconnect for cardHandle on client c.
DisconnectPosted(c, cardHandle) ==
  /\ Len(posted'[c]) = Len(posted[c]) + 1
  /\ LET m == posted'[c][Len(posted'[c])] IN
       /\ m.function_name = "SCardDisconnect"
       /\ m.arguments[1] = cardHandle

\* Client c can post a request.
CanPost(c) ==
  IF c = NoClient THEN FALSE
  ELSE ~clients[c].disposed /\ clients[c].port # Null

CardRemovedEntry ==
  [level |-> "info", message |-> "Card removed (poll mode)", detail |-> NoDetail]

\* C15: in polling mode, when the status call on the held handle fails, the
\* engine calls disconnect on that handle (the request is posted when the
\* Session can post); when the disconnect has settled, it drops the handle
\* and sets status 'ready' with uid and atr cleared, once (one log entry,
\* and the loop goes on without a held handle); and when a later cycle has
\* connected and read a card, the status is 'card' with the uid and atr
\* read in that cycle.
C15_HeldStatusFailure ==
  [][\A t \in TaskIds :
       Resumes(t) =>
         /\ (tasks[t].pc = "poll:statusHeld" /\ Awaited(t).st = "rejected") =>
               /\ tasks'[t].pc = "poll:disconnectHeld"
               /\ tasks'[t].active = tasks[t].active
               /\ CanPost(client) => DisconnectPosted(client, tasks[t].active.handle)
               /\ currentState' = currentState
         /\ tasks[t].pc = "poll:disconnectHeld" =>
               /\ tasks'[t].active = NoCard
               /\ tasks'[t].pc \notin {"poll:statusHeld", "poll:disconnectHeld"}
               /\ currentState'.status = "ready"
               /\ currentState'.cardUid = NullStr
               /\ currentState'.cardAtr = NullStr
               /\ \E i \in 1..Len(debugLog') :
                     /\ debugLog'[i] = CardRemovedEntry
                     /\ SubSeq(debugLog', 1, i - 1) = debugLog
         /\ tasks[t].pc = "poll:status" =>
               /\ currentState'.status = "card"
               /\ currentState'.cardUid = tasks[t].uid
               /\ currentState'.cardAtr = AtrOf(Awaited(t))
               /\ tasks'[t].active = tasks[t].card]_vars

\* A card was held, its status call failed, and a later cycle has read a
\* card again.
C15_Witness ==
  /\ currentState.status = "card"
  /\ currentState.cardUid # NullStr
  /\ currentState.cardAtr # NullStr
  /\ events = 0
  /\ \E t \in TaskIds : tasks[t].active # NoCard /\ tasks[t].pc = "poll:sleep"
  /\ \E i \in 1..Len(debugLog) : debugLog[i] = CardRemovedEntry /\ i < Len(debugLog)

\* The engine's Session is connected: the engine holds a client, and the
\* client a port and a context.
SessionConnected ==
  IF client = NoClient THEN FALSE ELSE IsConnected(clients[client])

\* C16: in polling mode, when connectCard has failed, the engine is left in
\* 'ready' and sleeps the poll interval if its Session is connected, and is
\* set to 'error' and leaves the loop if it is not (a Session lost, or
\* disposed and dropped by a concurrent restart).
C16_PollConnectFailure ==
  [][\A t \in TaskIds :
       (Resumes(t) /\ tasks[t].pc = "poll:connectCard" /\ Awaited(t).st = "rejected") =>
         IF SessionConnected
         THEN /\ currentState'.status = "ready"
              /\ tasks'[t].pc = "poll:sleep"
              /\ tasks'[t].wait.kind = "timer"
              /\ tasks'[t].wait.ms = POLL_INTERVAL_MS
         ELSE /\ currentState'.status = "error"
              /\ tasks'[t].pc = "start:loop"]_vars

\* The connect of the poll loop failed because a restart disposed the
\* Session: the engine is in 'error' and the loop has returned.
C16_Witness ==
  /\ currentState.status = "error"
  /\ currentState.error = MessageOf(ErrNullClient("isConnected"))
  /\ \E u \in TaskIds : tasks[u].pc = "restart:sleep"
  /\ \E t \in TaskIds : tasks[t].pc = "idle"

\* ---------------------------------------------------------------- claim C17

\* The awaits of restart().
RestartPcs == {"restart:cancel", "restart:sleep"}

\* The step calls restart() exactly once: one task that was idle is now
\* suspended inside restart(), which has cleared running, and no other task
\* has moved.
OneRestart ==
  /\ ~running'
  /\ \E t \in TaskIds :
       /\ tasks[t].pc = "idle"
       /\ tasks'[t].pc \in RestartPcs
       /\ \A u \in TaskIds \ {t} : tasks'[u] = tasks[u]

\* The step calls neither restart() nor anything else of the engine: every
\* task stays at its await, and the Session, its channel and the running
\* flag are as they were.
EngineUntouched ==
  /\ \A t \in TaskIds : tasks'[t].pc = tasks[t].pc
  /\ \A t \in TaskIds : InLoop(t) => tasks'[t] = tasks[t]
  /\ UNCHANGED <<clients, chan, posted, promises, client, running>>

\* The settings keys that differ between the stored values before and after
\* the step.
ChangedKeys == {k \in DOMAIN storage : storage'[k] # storage[k]}

\* Task t enters callEndpoint's fetch in this step.
DispatchStarts(t) ==
  tasks'[t].pc = "callEndpoint:fetch" /\ tasks[t].pc # "callEndpoint:fetch"

\* The dispatch task t starts was called without overrides (readCard and
\* runPollLoop pass none; the popup's resend may).
NoOverrides(t) == tasks'[t].back # "none"

\* C17: a change of detectionMode calls restart() exactly once; a change of
\* endpointUrl, venueId or clientId alone calls no restart and leaves the
\* loop and the Session as they are; the settings take the new value, they
\* keep agreeing with the stored value from then on, and a dispatch without
\* overrides sends what the settings hold.
C17_SettingsChange ==
  [][/\ ("detectionMode" \in ChangedKeys) =>
          (OneRestart /\ settings'.detectionMode = storage'.detectionMode)
     /\ (ChangedKeys # {} /\ "detectionMode" \notin ChangedKeys) =>
          (EngineUntouched /\ \A k \in ChangedKeys : settings'[k] = storage'[k])
     /\ \A k \in {"endpointUrl", "venueId"} :
          (storage[k] # UndefinedStr /\ settings[k] = storage[k]) =>
            settings'[k] = storage'[k]
     /\ (storage.clientId # 0 /\ settings.clientId = storage.clientId) =>
          settings'.clientId = storage'.clientId
     /\ \A t \in TaskIds :
          (DispatchStarts(t) /\ NoOverrides(t)) =>
            /\ currentState'.apiRequest.url = settings.endpointUrl
            /\ currentState'.apiRequest.body.venue_id = settings.venueId
            /\ currentState'.apiRequest.body.client_id = settings.clientId]_vars

\* A dispatch of the detection loop has sent the URL and the venue that were
\* saved after the worker had loaded other ones.
C17_Witness ==
  /\ events = 1
  /\ \E t \in TaskIds : tasks[t].pc = "callEndpoint:fetch" /\ tasks[t].back # "none"
  /\ currentState.apiRequest # NoRecord
  /\ storage.venueId = "v2"
  /\ "venue_id" \in DOMAIN currentState.apiRequest.body
  /\ currentState.apiRequest.body.venue_id = "v2"
  /\ running

\* ---------------------------------------------------------------- claim C18

\* The engine is running and its client has a live port and a context.
Healthy ==
  /\ running
  /\ client # NoClient
  /\ clients[client].port # Null
  /\ clients[client].context # Null

\* A tick of the keepalive alarm (the only counted event of SpecTick).
Tick == events' = events + 1

\* The step appends the alarm's warning to the log.
KeepaliveLogged ==
  /\ debugLog' # <<>>
  /\ debugLog'[Len(debugLog')].level = "warn"
  /\ debugLog'[Len(debugLog')].message = "Keepalive detected stale connection, restarting"
  /\ debugLog' # debugLog

\* C18: a tick of the keepalive alarm calls restart() if the engine is not
\* running, has no client, or has a client without port or context, and
\* only then; a tick that finds the engine running with a connected client
\* changes nothing.
C18_HealthTick ==
  [][Tick =>
       IF Healthy
       THEN UNCHANGED <<clients, chan, posted, promises, last, client, running,
                        currentState, debugLog, settings, storage, tasks, made,
                        fired, reqLimit>>
       ELSE OneRestart /\ KeepaliveLogged]_vars

\* A tick found the loop running on a client whose port was lost, and
\* restart() is cancelling.
C18_Witness ==
  /\ events = 1
  /\ client # NoClient
  /\ chan[client] = "lost"
  /\ \E t \in TaskIds : tasks[t].pc = "restart:cancel"
  /\ \E t \in TaskIds : InLoop(t)
  /\ debugLog # <<>>
  /\ debugLog[Len(debugLog)].message = "Keepalive detected stale connection, restarting"

\* ---------------------------------------------------------------- claim C19

\* The entries the log should hold: the last ones appended since the last
\* clear, at most 50 of them, oldest first.
RecentAppends ==
  LET n == IF last.since < 50 THEN last.since ELSE 50
  IN [i \in 1..n |-> EntryNo(events - n + i)]

\* C19: after any sequence of appends and clears the log holds at most 50
\* entries, the most recent appends since the last clear in the order they
\* were appended; after 51 appends to an empty log the first of them is gone
\* and the 51st is the last entry.
C19_LogKeepsRecent ==
  /\ Len(debugLog) <= 50
  /\ debugLog = RecentAppends
  /\ last.since = 51 =>
       /\ \A i \in 1..Len(debugLog) : debugLog[i] # EntryNo(events - 50)
       /\ debugLog[Len(debugLog)] = EntryNo(events)

\* 51 entries have been appended to a log that was cleared before.
C19_Witness ==
  /\ last.since = 51
  /\ events = 52
  /\ Len(debugLog) = 50
  /\ debugLog[1] = EntryNo(3)
  /\ debugLog[50] = EntryNo(52)

\* ---------------------------------------------------------------- claim C20

\* The overrides of a dispatch that carry no URL, and the callers.
NoUrlOverrides == {UndefinedStr, ""}
BodyOverrides == {NoRecord, [card_id |-> "FEED"]}
Callers == {"none", "readCard", "poll"}

\* after is before with exactly one entry appended, of level 'warn' (the
\* oldest entry of a full log making room for it).
OneWarnAppended(before, after) ==
  /\ after # <<>>
  /\ after[Len(after)].level = "warn"
  /\ SubSeq(after, 1, Len(after) - 1) =
       IF Len(before) < MAX_LOG_ENTRIES THEN before ELSE Tail(before)

\* R, the world callEndpoint as task t leaves behind, differs from W by one
\* warning in the log: the request and response records are those of W, and
\* no task waits for an HTTP exchange that did not wait in W.
NoUrlOutcome(W, R, t) ==
  /\ R.cs.apiRequest = W.cs.apiRequest
  /\ R.cs.apiResponse = W.cs.apiResponse
  /\ R.tasks[t].wait.kind # "fetch"
  /\ \A u \in TaskIds \ {t} : R.tasks[u] = W.tasks[u]
  /\ OneWarnAppended(W.log, R.log)

\* C20: callEndpoint called with no override URL while no endpoint URL is
\* configured sends no HTTP request, leaves the request and response records
\* as they are and appends exactly one 'warn' entry to the log, whatever the
\* state it is called in.
C20_NoUrlDispatch ==
  settings.endpointUrl = "" =>
    \A t \in TaskIds : \A ovUrl \in NoUrlOverrides : \A ovBody \in BodyOverrides :
      \A back \in Callers :
        NoUrlOutcome(World, CallEndpoint(World, t, "04A1", ovUrl, ovBody, back), t)

\* The detection loop has read a card and called callEndpoint while no URL
\* was configured: the warning follows the entry of the card, no request is
\* recorded and the loop goes on.
C20_Witness ==
  /\ settings.endpointUrl = ""
  /\ \E t \in TaskIds : tasks[t].pc = "callEndpoint:returned"
  /\ currentState.status = "card"
  /\ currentState.apiRequest = NoRecord
  /\ Len(debugLog) >= 2
  /\ debugLog[Len(debugLog)].level = "warn"
  /\ debugLog[Len(debugLog)].message = "No endpoint URL configured, skipping API call"
  /\ debugLog[Len(debugLog) - 1].level = "info"

\* ---------------------------------------------------------------- claim C21

\* The continuation of task t after its fetch runs in this step.
RoundTripEnds(t) ==
  /\ tasks[t].pc = "callEndpoint:fetch"
  /\ tasks[t].wait.kind = "ready"
  /\ tasks'[t] # tasks[t]

\* C21: a dispatch that has a URL stores the request record and empties the
\* response record before it issues the HTTP request; when the round trip
\* has ended it stores one response record: a status record if an HTTP
\* response arrived, an error record if the network failed.
C21_RecordsAroundRoundTrip ==
  [][\A t \in TaskIds :
       /\ DispatchStarts(t) =>
            /\ currentState'.apiRequest.kind = "request"
            /\ currentState'.apiResponse = NoRecord
       /\ RoundTripEnds(t) =>
            currentState'.apiResponse.kind =
              IF tasks[t].res.st = "resolved" THEN "response" ELSE "error"]_vars

\* ---------------------------------------------------------------- claim C22

\* The tasks that issue a POST in this step.
Posting ==
  {t \in TaskIds : tasks'[t].wait.kind = "fetch" /\ tasks[t].wait.kind # "fetch"}

\* The continuation of task t shows a card it has just read (readCard or
\* runPollLoop after client.status) in this step.
CardDetected(t) ==
  tasks[t].pc \in {"readCard:status", "poll:status"} /\ Resumes(t)

\* The popup's resendRequest is handled in this step (the only counted
\* event of SpecDispatch).
ResendHandled == events' = events + 1

\* C22: a POST is issued only by the reading of a card or by a
\* resendRequest, one POST each; the end of a round trip, whatever its
\* outcome, issues none.
C22_OnePostPerDispatch ==
  [][/\ Cardinality(Posting) <= 1
     /\ \A t \in Posting : IF ResendHandled THEN tasks[t].pc = "idle" ELSE CardDetected(t)
     /\ \A t \in TaskIds : RoundTripEnds(t) => Posting = {}]_vars

\* The POST of a card detection was answered 500 and readCard has gone on
\* to disconnect the card: nothing is sent.
C22_Witness ==
  /\ events = 0
  /\ currentState.apiResponse # NoRecord
  /\ currentState.apiResponse.kind = "response"
  /\ currentState.apiResponse.status = 500
  /\ \E t \in TaskIds : tasks[t].pc = "readCard:disconnect" /\ tasks[t].wait.kind = "call"
  /\ \A t \in TaskIds : tasks[t].pc # "callEndpoint:fetch"

\* ---------------------------------------------------------------- claim C23

\* The state InitResend describes, as SpecDispatch reaches it.
ResendDoneReached == AfterOverrideResend /\ events = 1

\* C23: a resend that names no URL goes to the URL of the last recorded
\* request; it sends the body it carries or, carrying none, the body of the
\* last recorded request; the request record is replaced by the new one and
\* the response record emptied.
C23_ResendReusesLast ==
  [][(ResendHandled /\ currentState.apiRequest # NoRecord) =>
       /\ currentState'.apiRequest # NoRecord
       /\ currentState'.apiRequest.url = currentState.apiRequest.url
       /\ currentState'.apiRequest.body \in
            {currentState.apiRequest.body, [card_id |-> "BEEF"]}
       /\ currentState'.apiResponse = NoRecord]_vars

\* ---------------------------------------------------------------- claim C24

\* C24: a step that issues no POST leaves a recorded request as it is, and
\* leaves the response record as it is unless it is the end of a round trip
\* storing its response.
C24_PairRetained ==
  [][(currentState.apiRequest # NoRecord /\ Posting = {}) =>
       /\ currentState'.apiRequest = currentState.apiRequest
       /\ (\A t \in TaskIds : ~RoundTripEnds(t)) =>
            currentState'.apiResponse = currentState.apiResponse]_vars

\* ---------------------------------------------------------------- claim C25

\* parseAtr has returned or raised on the sequence a.
Parsed(a) == last.op = "parseAtr" /\ last.atr = a

\* C25: for the ATR 3B 8F 80 01 80 4F 0C A0 00 00 03 06 03 00 01 00 00 00
\* 00 6A parseAtr yields cardName "MIFARE Classic 1K", the standard
\* "ISO 14443 A, Part 3" and rid "NXP (PC/SC standard)".
C25_SampleAtr ==
  Parsed(CardAtr) =>
    /\ ~last.info.threw
    /\ last.info.cardName = "MIFARE Classic 1K"
    /\ last.info.standard = "ISO 14443 A, Part 3"
    /\ last.info.rid = "NXP (PC/SC standard)"

\* ---------------------------------------------------------------- claim C26

\* C26: parseAtr never raises, whatever the bytes: it returns a record,
\* all-null for a sequence too short to parse, and where it extracts
\* historical bytes their start offset plus their count is within the
\* sequence.
C26_ParseAtrNeverRaises ==
  last.op = "parseAtr" =>
    /\ ~last.info.threw
    /\ Len(last.atr) < 2 => last.info = EmptyCardInfo
    /\ last.info.historicalBytes # NullStr =>
         HistoricalStart(last.atr, 2, last.atr[2]) + (last.atr[2] % 16) <= Len(last.atr)

\* ---------------------------------------------------------------- claim C27

\* The first four bytes of a are 0x3B, a byte of high nibble 0x8, 0x80, 0x01.
ContactlessStart(a) ==
  /\ Len(a) >= 4
  /\ a[1] = 59
  /\ (a[2] \div 16) % 16 = 8
  /\ a[3] = 128
  /\ a[4] = 1

\* C27: for every ATR that begins 3B 8x 80 01 parseAtr sets cardType to the
\* generic contactless type, whether or not the historical bytes gave a
\* card name, a standard or a RID.
C27_HeuristicIndependent ==
  (last.op = "parseAtr" /\ ContactlessStart(last.atr)) =>
    last.info.cardType = "Contactless (ISO 14443)"

\* ------------------------------------------------- readCardUid on its own

\* The bytes of the responses: 0x00, 0x0A, 0x90 and 0xAB.
RespBytes == {0, 10, 144, 171}
RespInputs == UNION {[1..n -> RespBytes] : n \in 0..MaxRespLen}

InitUid ==
  /\ clients = [c \in ClientIds |-> NewClient]
  /\ chan = [c \in ClientIds |-> "none"]
  /\ posted = [c \in ClientIds |-> <<>>]
  /\ promises = [c \in ClientIds |-> EmptyMap]
  /\ \E r \in RespInputs : last = [op |-> "transmit", response |-> r]
  /\ client = NoClient
  /\ running = FALSE
  /\ currentState = InitialState
  /\ debugLog = <<>>
  /\ settings = InitialSettings
  /\ storage = FirstRunStorage
  /\ tasks = [t \in TaskIds |-> IdleTask]
  /\ made = 0
  /\ fired = {}
  /\ events = 0
  /\ reqLimit = MaxReq

\* readCardUid goes on after transmit has answered.
ReadCardUidCall ==
  /\ last.op = "transmit"
  /\ last' = [op |-> "readCardUid", response |-> last.response,
               uid |-> UidOfResponse(last.response)]
  /\ UNCHANGED <<clients, chan, posted, promises, client, running, currentState,
                 debugLog, settings, storage, tasks, made, fired, events, reqLimit>>

SpecUid == InitUid /\ [][ReadCardUidCall]_vars

\* ---------------------------------------------------------------- claim C28

\* Two uppercase hex digits for a byte.
TwoDigits(b) == HexDigits[(b \div 16) + 1] \o HexDigits[(b % 16) + 1]

\* The bytes as two-digit groups with a colon between neighbours.
RECURSIVE ColonHex(_)
ColonHex(bytes) ==
  IF Len(bytes) = 0 THEN ""
  ELSE IF Len(bytes) = 1 THEN TwoDigits(bytes[1])
  ELSE ColonHex(SubSeq(bytes, 1, Len(bytes) - 1)) \o ":" \o TwoDigits(bytes[Len(bytes)])

\* The response ends with the status word 90 00.
EndsWithSuccess(r) == Len(r) >= 2 /\ r[Len(r) - 1] = 144 /\ r[Len(r)] = 0

\* C28: readCardUid returns the bytes before the trailer as colon-separated
\* uppercase two-digit hex exactly when the response has at least two bytes
\* and ends 90 00, and null for every other response.
C28_UidOnSuccessTrailer ==
  last.op = "readCardUid" =>
    last.uid = IF EndsWithSuccess(last.response)
               THEN ColonHex(SubSeq(last.response, 1, Len(last.response) - 2))
               ELSE NullStr

C28_Witness ==
  /\ last.op = "readCardUid"
  /\ last.response = <<10, 171, 144, 0>>
  /\ last.uid = "0A:AB"

\* ---------------------------------------------------------------- claim C29

\* loadSettings of task t generates a clientId in this step.
Generates(t) ==
  /\ tasks'[t].pc = "start:saveClientId"
  /\ tasks[t].pc # "start:saveClientId"

\* C29: the clientId is generated at most once: a loadSettings generates
\* one only if none was generated or stored before, and a stored clientId
\* is never replaced.
C29_ClientIdOnce ==
  [][/\ \A t \in TaskIds :
          Generates(t) => settings.clientId = 0 /\ storage.clientId = 0
     /\ storage.clientId # 0 => storage'.clientId = storage.clientId]_vars

\* ---------------------------------------------------------------- claim C30

\* The step puts the DetectionState into 'error', or into another fault
\* while it is in 'error'.
FaultSet ==
  /\ currentState'.status = "error"
  /\ currentState.status # "error" \/ currentState'.error # currentState.error

\* The step appends an entry of level warn or error to the log.
FaultLogged ==
  \E i \in (Len(debugLog) + 1)..Len(debugLog') :
     debugLog'[i].level \in {"warn", "error"}

\* C30: every step that sets the status to 'error' appends an entry of
\* level warn or error to the event log and leaves a message in the
\* state's error field.
C30_FaultsLogged ==
  [][FaultSet => FaultLogged /\ currentState'.error # NullStr]_vars

\* ----------------------------------------- the event loop reading a card

\* The broker answers the SCardTransmit id of client c with an error code
\* (the card does not answer, or was taken away).
TransmitRefused(c, id) ==
  /\ Quiet
  /\ chan[c] = "open"
  /\ id \in DOMAIN clients[c].pending
  /\ clients[c].pending[id] = "transmit"
  /\ LET msg == [type |-> ResponseType, request_id |-> id, payload |-> <<6>>,
                  error |-> UndefinedStr]
     IN Step2(Taken(ApplyW(World, c, NoRet(OnMessage(clients[c], msg))), c, id))
  /\ UNCHANGED <<storage, fired, events>>

\* The worker in event mode with an endpoint configured, no popup or
\* options page open, and a broker that may refuse any command.
InitRead ==
  /\ clients = [c \in ClientIds |-> NewClient]
  /\ chan = [c \in ClientIds |-> "none"]
  /\ posted = [c \in ClientIds |-> <<>>]
  /\ promises = [c \in ClientIds |-> EmptyMap]
  /\ last = [op |-> "new", st |-> "none"]
  /\ client = NoClient
  /\ running = TRUE
  /\ currentState = InitialState
  /\ debugLog = <<>>
  /\ settings = InitialSettings
  /\ storage = EventStorage
  /\ tasks = [t \in TaskIds |->
                IF t = 1 THEN [IdleTask EXCEPT !.pc = "start:loadSettings",
                                               !.wait = StorageGet, !.res = Pending]
                ELSE IdleTask]
  /\ made = 0
  /\ fired = {}
  /\ events = 0
  /\ reqLimit = MaxReadReq

NextRead ==
  \/ \E t \in TaskIds : RunTask(t)
  \/ \E t \in TaskIds : TimerFires(t)
  \/ \E t \in TaskIds : FetchDone(t)
  \/ \E t \in TaskIds : StorageReply(t)
  \/ \E c \in ClientIds : \E id \in 1..MaxReadReq : BrokerReply(c, id)
  \/ \E c \in ClientIds : \E id \in 1..MaxReadReq : TransmitRefused(c, id)

SpecRead == InitRead /\ [][NextRead]_vars

\* ---------------------------------------------------------------- claim C31

\* The continuation of task t runs in this step, on a rejected await at one
\* of the program points pcs.
FailsAt(t, pcs) ==
  /\ tasks[t].pc \in pcs
  /\ Resumes(t)
  /\ Awaited(t).st = "rejected"

\* The step appends an entry to the log.
EntryAppended == Len(debugLog') > Len(debugLog)

\* C31: in a card read the UID read and the status query are independent:
\* when the UID read has failed the status query is issued all the same,
\* when the status query has failed the card is shown with the UID that
\* was read, and each of the two failures leaves an entry in the log.
C31_SubStepsIndependent ==
  [][\A t \in TaskIds :
       /\ FailsAt(t, {"readCard:readCardUid", "poll:readCardUid"}) =>
             /\ tasks'[t].pc \in {"readCard:status", "poll:status"}
             /\ EntryAppended
       /\ FailsAt(t, {"readCard:status", "poll:status"}) =>
             /\ currentState'.status = "card"
             /\ currentState'.cardUid = tasks[t].uid
             /\ EntryAppended]_vars

\* ---------------------------------------------------------------- claim C32

\* The continuation of the card read of task t runs after its status query
\* has settled: the card is shown.
CardShown(t) ==
  /\ tasks[t].pc \in {"readCard:status", "poll:status"}
  /\ Resumes(t)

\* The continuation of the card read of task t runs after a UID read that
\* gave no UID: the transmit failed, or the card answered without 90 00.
NoUidRead(t) ==
  /\ tasks[t].pc \in {"readCard:readCardUid", "poll:readCardUid"}
  /\ Resumes(t)
  /\ IF Awaited(t).st = "rejected" THEN TRUE
     ELSE UidOfResponse(Awaited(t).value) = NullStr

\* C32: a card detection sends a request exactly if the card read gave a
\* non-empty UID, and no request is sent otherwise; a detection without a
\* UID goes on to the status query, and the card is shown with status
\* 'card', the UID and the ATR read, whatever the UID.
C32_DispatchIffUid ==
  [][\A t \in TaskIds :
       /\ CardShown(t) =>
             /\ currentState'.status = "card"
             /\ currentState'.cardUid = tasks[t].uid
             /\ currentState'.cardAtr = AtrOf(Awaited(t))
             /\ t \in Posting <=> tasks[t].uid \notin {NullStr, ""}
       /\ NoUidRead(t) =>
             /\ tasks'[t].pc \in {"readCard:status", "poll:status"}
             /\ currentState'.status # "error"
             /\ Posting = {}
       /\ t \in Posting => (ResendHandled \/ CardShown(t))]_vars

\* ---------------------------------------------------------------- claim C33

\* The invocation keeps a card handle: the card of the read under way, or
\* the activeCard of runPollLoop.
HoldsHandle(task) == task.card # NoCard \/ task.active # NoCard

\* Task t lets go of the card handle it keeps.
DropsHandle(t) == HoldsHandle(tasks[t]) /\ ~HoldsHandle(tasks'[t])

\* The step calls disconnect as task t.
CallsDisconnect(t) ==
  /\ tasks'[t].pc \in {"readCard:disconnect", "poll:disconnectHeld"}
  /\ tasks[t].pc \notin {"readCard:disconnect", "poll:disconnectHeld"}

\* C33: a card handle is let go only by the continuation that follows its
\* disconnect, at the end of a card read and after the failed status check
\* of polling alike, also when the loop ends or the engine restarts; the
\* disconnect is called once, for the handle kept, and posted where the
\* Session can post.
C33_HandleDisconnectedOnce ==
  [][\A t \in TaskIds :
       /\ DropsHandle(t) =>
             tasks[t].pc \in {"readCard:disconnect", "poll:disconnectHeld"}
       /\ CallsDisconnect(t) =>
             /\ HoldsHandle(tasks[t])
             /\ CanPost(client) => DisconnectPosted(client, 5)]_vars

\* ---------------------------------------------------------------- claim C34

\* The continuation of runEventLoop as task t runs on a reported status
\* change.
StatusChanged(t) ==
  /\ tasks[t].pc = "event:getStatusChange"
  /\ Resumes(t)
  /\ Awaited(t).st = "resolved"
  /\ Len(Awaited(t).value) > 0

\* The event state without the changed bit.
MinusChanged(ev) == IF (ev \div 2) % 2 = 1 THEN ev - 2 ELSE ev

\* The step calls getStatusChange as task t with the known state known:
\* readerStates holds it, and the command posted (if the Session can post)
\* carries it.
WaitsKnowing(t, known) ==
  /\ tasks'[t].pc = "event:getStatusChange"
  /\ tasks'[t].rs = known
  /\ tasks'[t].wait.kind = "call" =>
       LET msgs == posted'[tasks'[t].wait.c] IN
         /\ Len(msgs) = Len(posted[tasks'[t].wait.c]) + 1
         /\ msgs[Len(msgs)].function_name = "SCardGetStatusChange"
         /\ msgs[Len(msgs)].arguments[3] =
              <<[reader_name |-> LibReader, current_state |-> known]>>

\* The state with the card taken away.
CardGone(cs) ==
  [cs EXCEPT !.status = "ready", !.cardUid = NullStr, !.cardAtr = NullStr,
             !.error = NullStr]

\* C34: in event mode a result with the present bit starts a card read
\* exactly if the status is not 'card'; a result without it sets 'ready'
\* with uid and atr cleared exactly if the status is 'card', and otherwise
\* the state stays; and the next wait, issued at once or after the card
\* read, carries the returned event state without the changed bit.
C34_StatusChangeHandling ==
  [][\A t \in TaskIds :
       /\ StatusChanged(t) =>
             LET ev == Awaited(t).value[1].event_state
                 present == (ev \div SCARD_STATE_PRESENT) % 2 = 1
             IN /\ tasks'[t].pc = "readCard:connectCard"
                      <=> (present /\ currentState.status # "card")
                /\ currentState' = IF ~present /\ currentState.status = "card"
                                   THEN CardGone(currentState) ELSE currentState
                /\ tasks'[t].pc = "event:getStatusChange" => WaitsKnowing(t, MinusChanged(ev))
       /\ (Resumes(t) /\ tasks[t].pc \in {"readCard:connectCard", "readCard:disconnect"}
             /\ tasks'[t].pc = "event:getStatusChange") =>
             WaitsKnowing(t, MinusChanged(tasks[t].ev))]_vars

\* A card was read and then taken away: the state is 'ready' again and the
\* loop waits knowing the reader empty.
C34_Witness ==
  /\ currentState.status = "ready"
  /\ currentState.cardUid = NullStr
  /\ \E i \in 1..Len(debugLog) : debugLog[i].message = "Card removed"
  /\ \E t \in TaskIds :
       /\ tasks[t].pc = "event:getStatusChange"
       /\ tasks[t].wait.kind = "call"
       /\ tasks[t].rs = 16

\* ---------------------------------------------------------------- claim C35

\* The step posts nothing but, possibly, one SCardStatus for cardHandle.
OnlyStatusPosted(cardHandle) ==
  \A c \in ClientIds :
    \/ posted'[c] = posted[c]
    \/ /\ Len(posted'[c]) = Len(posted[c]) + 1
       /\ SubSeq(posted'[c], 1, Len(posted[c])) = posted[c]
       /\ posted'[c][Len(posted'[c])].function_name = "SCardStatus"
       /\ posted'[c][Len(posted'[c])].arguments = <<cardHandle>>

\* C35: in polling mode, while a card handle is held and its status check
\* succeeds, the engine only sleeps and checks the status of that handle
\* again: no other command is posted, no request is sent, the handle is
\* kept, and the DetectionState and the log stay as they are.
C35_HeldCardIsQuiet ==
  [][\A t \in TaskIds :
       /\ (tasks[t].pc = "poll:statusHeld" /\ Resumes(t) /\ Awaited(t).st = "resolved") =>
             /\ tasks'[t].pc = "poll:sleep"
             /\ tasks'[t].active = tasks[t].active
             /\ posted' = posted
             /\ Posting = {}
             /\ currentState' = currentState
             /\ debugLog' = debugLog
       /\ (tasks[t].pc = "poll:sleep" /\ tasks[t].wait.kind = "ready" /\ Resumes(t)
             /\ tasks[t].active # NoCard /\ running) =>
             /\ tasks'[t].pc = "poll:statusHeld"
             /\ tasks'[t].active = tasks[t].active
             /\ OnlyStatusPosted(tasks[t].active.handle)
             /\ Posting = {}
             /\ currentState' = currentState
             /\ debugLog' = debugLog]_vars

\* The held card has passed two status checks: one card read is logged and
\* the loop sleeps before the third.
C35_Witness ==
  /\ currentState.status = "card"
  /\ client # NoClient
  /\ clients[client].requestId = 7
  /\ Cardinality({i \in 1..Len(debugLog) : debugLog[i].level = "info"
                     /\ debugLog[i].message # "Connected to Smart Card Connector"}) = 1
  /\ \E t \in TaskIds :
       /\ tasks[t].pc = "poll:sleep"
       /\ tasks[t].active # NoCard

\* ---------------------------------------------------------------- claim C36

\* C36: whenever the status is 'ready', cardUid, cardAtr and cardInfo are
\* null: nothing of a card seen before is left.
C36_ReadyHasNoCard ==
  currentState.status = "ready" =>
    /\ currentState.cardUid = NullStr
    /\ currentState.cardAtr = NullStr
    /\ currentState.cardInfo = NoRecord

\* ------------------------------------------------- a card that stays seated

\* The request id of client c as the broker holds it.
RequestOf(c, id) ==
  LET i == CHOOSE i \in 1..Len(posted[c]) : posted[c][i].request_id = id
  IN posted[c][i]

\* What a broker with a healthy reader and one card seated for good answers
\* call id of client c with: the reader is listed, the card answers GET UID
\* and its status is read; a connect may fail (the card is busy); a wait
\* that knows the card present times out, any other reports it present.
SeatedPayloads(c, id) ==
  LET m == clients[c].pending[id] IN
  CASE m = "establishContext" -> {<<0, 70 + c>>}
    [] m = "listReaders" -> {<<0, <<LibReader>>>>}
    [] m = "connectCard" -> {<<0, 5, SCARD_PROTOCOL_T1>>, <<6>>}
    [] m = "transmit" -> {<<0, [protocol |-> SCARD_PROTOCOL_T1], <<4, 161, 144, 0>>>>}
    [] m = "status" -> {<<0, LibReader, 52, SCARD_PROTOCOL_T1, CardAtr>>}
    [] m = "getStatusChange" ->
         IF BitSet(RequestOf(c, id).arguments[3][1].current_state, SCARD_STATE_PRESENT)
         THEN {<<SCARD_E_TIMEOUT>>}
         ELSE {<<0, <<[reader_name |-> LibReader, event_state |-> 34]>>>>}
    [] OTHER -> {<<0>>}

\* That broker answers call id of client c.
SeatedReply(c, id) ==
  /\ Quiet
  /\ chan[c] = "open"
  /\ id \in DOMAIN clients[c].pending
  /\ \E p \in SeatedPayloads(c, id) :
       LET msg == [type |-> ResponseType, request_id |-> id, payload |-> p,
                   error |-> UndefinedStr]
       IN Step2(Taken(ApplyW(World, c, NoRet(OnMessage(clients[c], msg))), c, id))
  /\ UNCHANGED <<storage, fired, events>>

\* The worker in event mode with an endpoint configured and a card seated
\* from the start; the detection mode may be changed in the options.
NextSeated ==
  \/ \E t \in TaskIds : RunTask(t)
  \/ \E t \in TaskIds : TimerFires(t)
  \/ \E t \in TaskIds : FetchDone(t)
  \/ \E t \in TaskIds : StorageReply(t)
  \/ \E c \in ClientIds : \E id \in 1..MaxReadReq : SeatedReply(c, id)
  \/ \E m \in DetectionModes : ModeChanged(m)

SpecSeated == InitRead /\ [][NextSeated]_vars

\* ---------------------------------------------------------------- claim C37

\* The requests the engine sent so far: the entries callEndpoint logs when
\* it sends one.
Dispatches ==
  {i \in 1..Len(debugLog) : debugLog[i].message = "Sending POST to https://api"}

\* C37: a card that is inserted once and stays seated causes at most one
\* automatic dispatch, restarts of the engine included.
C37_OneDispatchPerSeating ==
  Cardinality(Dispatches) <= 1

\* ---------------------------------------------------------------- claim C40

\* Task t is runEventLoop waiting for a status change of a reader it takes
\* to hold a card: with the card seated the wait can only time out and be
\* issued again.
WaitsOnKnownCard(t) ==
  /\ tasks[t].pc = "event:getStatusChange"
  /\ tasks[t].wait.kind = "call"
  /\ promises[tasks[t].wait.c][tasks[t].wait.id].st = "pending"
  /\ BitSet(tasks[t].rs, SCARD_STATE_PRESENT)

\* C40: in event mode, with a card seated and the Session healthy, the
\* status becomes 'card': the loop does not settle into waiting for a
\* change of a card it knows present while the status is not 'card', so a
\* card whose first connect failed is read again without being taken out.
C40_SeatedCardIsRead ==
  \A t \in TaskIds :
    (running /\ events = 0 /\ WaitsOnKnownCard(t)) => currentState.status = "card"

\* ---------------------------------------------------------------- claim C38

\* Another dispatch than that of task t has recorded its request and still
\* waits for its fetch.
OtherInFlight(t) == \E u \in TaskIds \ {t} : Dispatching(u)

\* C38: the retained response is the outcome of the retained request.  Each
\* dispatch overwrites the one request record and each round trip the one
\* response record, so the pair belongs together exactly when no round trip
\* ends while a second dispatch is in flight: of two overlapping dispatches
\* the earlier one's response is stored next to the later one's request,
\* at once when the earlier ends first, and when it ends otherwise.
C38_ResponseOfRetainedRequest ==
  [][\A t \in TaskIds : RoundTripEnds(t) => ~OtherInFlight(t)]_vars

\* ---------------------------------------------------------------- claim C39

\* The detection loop of task t awaits a command it issued on client c.
LoopAwaitsOn(t, c) ==
  InLoop(t) /\ tasks[t].wait.kind = "call" /\ tasks[t].wait.c = c

\* The detection loop of task t, resumed from a command it awaited on one
\* client, issues its next command (with the card handle, when that client
\* has just handed one out) on another client.
ChangesClient(t) ==
  /\ InLoop(t) /\ tasks[t].wait.kind = "call" /\ Resumes(t)
  /\ tasks'[t].pc \in LoopPcs /\ tasks'[t].wait.kind = "call"
  /\ tasks'[t].wait.c # tasks[t].wait.c

\* The detection loop of task t has returned and the recovery tail of its
\* start() disposes the global client in this step.
ExitDisposes(t) ==
  /\ tasks[t].pc = "start:loop" /\ Resumes(t)
  /\ tasks'[t].pc = "start:recoverySleep"
  /\ client # NoClient

\* C39: a detection loop keeps to the client of the start() that launched
\* it.  Every start() creates its own client, so a loop never passes from
\* one client to another between two commands, two loops never await
\* commands on one client, and the exit of one loop never disposes the
\* client another loop awaits a command on.
C39_LoopKeepsToItsClient ==
  [][/\ \A t \in TaskIds : ~ChangesClient(t)
     /\ \A t \in TaskIds : \A u \in TaskIds \ {t} : \A c \in ClientIds :
          ~(LoopAwaitsOn(t, c) /\ LoopAwaitsOn(u, c))'
     /\ \A t \in TaskIds : \A u \in TaskIds \ {t} :
          ExitDisposes(t) => ~LoopAwaitsOn(u, client)]_vars

====
